---- MODULE Spec2Model ----
(***************************************************************************)
(* A model of the ag-ui Rust client: the run executor (agent.rs,           *)
(* event_handler.rs), the subscriber dispatch pipeline (subscriber.rs)     *)
(* and the SSE frame decoder (sse.rs).                                     *)
(*                                                                         *)
(* An Option<T> is a sequence: <<>> is None and <<v>> is Some(v).          *)
(***************************************************************************)
EXTENDS Integers, Sequences, FiniteSets, TLC

VARIABLES
    phase,      \* run_agent's position: "Idle", "Running" or "Returned"
    params,     \* the caller's RunAgentParams (messages, state)
    subs,       \* the registered subscribers, in registration order
    messages,   \* EventHandler.messages
    state,      \* EventHandler.state
    result,     \* EventHandler.result
    outcome,    \* what run_agent returned
    nEvents,    \* stream items consumed so far
    last,       \* what the last step of run_agent did (hooks called, mutations merged)
    newMsgLog,  \* every on_new_message invocation of the run, <<subscriber, message id>>
    delivered,  \* the Ok items a scripted stream has yielded so far, in arrival order
    sseRest,    \* the bytes of the response body that have not arrived yet
    sseBuffer,  \* the decoder's retained text buffer
    sseOut,     \* the frames (and errors) the decoder has emitted
    sseWhole,   \* the whole response body, as sent
    sseDone,    \* the byte stream has ended
    sseLast,    \* what the decoder did with the last chunk (text split, frames emitted)
    clientError,\* an AgUiClientError handed to is_retryable
    retryable,  \* what is_retryable returned for it, once called
    other       \* a second run_agent call made with the same params, if any

runVars == <<phase, params, subs, messages, state, result, outcome, nEvents, last, newMsgLog,
             delivered, other>>
sseVars == <<sseRest, sseBuffer, sseOut, sseWhole, sseDone, sseLast>>
errVars == <<clientError, retryable>>
vars == <<phase, params, subs, messages, state, result, outcome, nEvents, last, newMsgLog,
          delivered,
          sseRest, sseBuffer, sseOut, sseWhole, sseDone, sseLast, clientError, retryable, other>>

(***************************************************************************)
(* Bounds of the exploration.                                              *)
(***************************************************************************)
MaxEvents == 2      \* Ok items one run's stream delivers
MaxSubs == 2        \* subscribers attached to one run
MaxFrames == 2      \* complete segments in one response body
MaxDeltas == 2      \* content deltas of one scripted text message
MaxItems == 3       \* Ok items of one scripted stream of run events

None == <<>>
Some(v) == <<v>>
IsSome(o) == o # <<>>
Unwrap(o) == o[1]

Last(s) == s[Len(s)]
Front(s) == SubSeq(s, 1, Len(s) - 1)
Range(s) == {s[i] : i \in 1..Len(s)}

(***************************************************************************)
(* Messages and tool calls.                                                *)
(***************************************************************************)
Roles == {"developer", "system", "assistant", "user", "tool"}

ToolCall(id, name, arguments) ==
    [id |-> id, call_type |-> "function", name |-> name, arguments |-> arguments]

\* Message::Assistant { id, content, name: None, tool_calls }
AssistantMessage(id, content, tool_calls) ==
    [id |-> id, role |-> "assistant", content |-> content, tool_calls |-> tool_calls]

\* The variants whose content is a plain String and that hold no tool calls.
PlainMessage(role, id, content) ==
    [id |-> id, role |-> role, content |-> Some(content), tool_calls |-> None]

MessageIdsOf(ms) == {ms[i].id : i \in 1..Len(ms)}

\* Message::content_mut: the message after the call; an assistant message
\* whose content is absent gets an empty content.
content_mut(m) ==
    IF m.role = "assistant" /\ m.content = None THEN [m EXCEPT !.content = Some("")] ELSE m

\* tool_calls_mut, were it to install a fresh vector on every call.
tool_calls_mut_fresh(m) ==
    IF m.role = "assistant" THEN <<[m EXCEPT !.tool_calls = Some(<<>>)], TRUE>> ELSE <<m, FALSE>>

\* Message::tool_calls_mut: <<the message after the call, whether Some(vec) is returned>>;
\* an assistant message whose tool_calls is absent gets an empty vector.
tool_calls_mut(m) ==
    IF m.role = "assistant"
    THEN <<IF m.tool_calls = None THEN [m EXCEPT !.tool_calls = Some(<<>>)] ELSE m, TRUE>>
    ELSE <<m, FALSE>>

\* Message::tool_calls
tool_calls(m) == IF m.role = "assistant" THEN m.tool_calls ELSE None

(***************************************************************************)
(* The typed application state and JSON Patch.  A JSON object is a         *)
(* function from its keys to its values; StateT is a struct with the       *)
(* required field "counter" and the optional field "note".                 *)
(***************************************************************************)
JsonNull == "null"

StateKeys == {"counter", "note"}

\* serde_json::to_value(&self.state): an absent optional field is serialized as no key.
to_value(s) == s

\* serde_json::from_value::<StateT>: <<ok, state>>; a missing required field is an error.
from_value(doc) ==
    IF "counter" \in DOMAIN doc THEN <<TRUE, doc>> ELSE <<FALSE, doc>>

PatchOp(op, path, value) == [op |-> op, path |-> path, value |-> value]

JsonSet(doc, k, v) == [x \in (DOMAIN doc) \cup {k} |-> IF x = k THEN v ELSE doc[x]]
JsonRemove(doc, k) == [x \in (DOMAIN doc) \ {k} |-> doc[x]]

\* One RFC 6902 operation on a top-level member: <<ok, document after>>.
apply_op(doc, o) ==
    CASE o.op = "add"     -> <<TRUE, JsonSet(doc, o.path, o.value)>>
      [] o.op = "replace" -> IF o.path \in DOMAIN doc
                             THEN <<TRUE, JsonSet(doc, o.path, o.value)>>
                             ELSE <<FALSE, doc>>
      [] o.op = "remove"  -> IF o.path \in DOMAIN doc
                             THEN <<TRUE, JsonRemove(doc, o.path)>>
                             ELSE <<FALSE, doc>>
      [] o.op = "test"    -> <<o.path \in DOMAIN doc /\ doc[o.path] = o.value, doc>>
      [] OTHER            -> <<FALSE, doc>>

\* The operations of a patch applied in order to a working copy, stopping at
\* the first one that fails: <<ok, working copy>>.
RECURSIVE apply_ops(_, _)
apply_ops(doc, ops) ==
    IF ops = <<>> THEN <<TRUE, doc>>
    ELSE LET r == apply_op(doc, Head(ops))
         IN IF r[1] THEN apply_ops(r[2], Tail(ops)) ELSE <<FALSE, r[2]>>

(***************************************************************************)
(* Errors (error.rs) and mutations (agent.rs).                             *)
(***************************************************************************)
AgentError(kind, sub, hook) == [kind |-> kind, sub |-> sub, hook |-> hook]
NoError == AgentError("", 0, "")
\* The error a hook of subscriber s returns.
SubscriberError(s, hook) == AgentError("Subscriber", s, hook)
ExecutionError == AgentError("Execution", 0, "")
JsonError == AgentError("Json", 0, "")

AgentStateMutation(ms, st, stop) == [messages |-> ms, state |-> st, stop_propagation |-> stop]
\* AgentStateMutation::default()
DefaultMutation == AgentStateMutation(None, None, FALSE)

(***************************************************************************)
(* AgUiClientError::is_retryable (error.rs).  For the classification an    *)
(* error is its variant, the status of an HttpStatus error, and, for an    *)
(* HttpTransport error, which of reqwest's is_connect, is_timeout and      *)
(* is_request hold.                                                        *)
(***************************************************************************)
ClientError(kind, status, transport) ==
    [kind |-> kind, status |-> status, transport |-> transport]

\* StatusCode::TOO_MANY_REQUESTS
TOO_MANY_REQUESTS == 429

\* StatusCode::is_server_error
is_server_error(status) == 600 > status /\ status >= 500

\* is_retryable, were rate limiting not retryable.
is_retryable_server_errors_only(e) ==
    IF e.kind = "HttpTransport" THEN e.transport # {}
    ELSE e.kind = "HttpStatus" /\ is_server_error(e.status)

\* AgUiClientError::is_retryable
is_retryable(e) ==
    IF e.kind = "HttpTransport"
    THEN "connect" \in e.transport \/ "timeout" \in e.transport \/ "request" \in e.transport
    ELSE IF e.kind = "HttpStatus"
    THEN is_server_error(e.status) \/ e.status = TOO_MANY_REQUESTS
    ELSE FALSE

\* The values of reqwest::StatusCode.
StatusCodes == 100..999

\* The errors the classification is explored on: every status, every
\* combination of the three transport predicates, and the other variants.
ClientErrors ==
    {ClientError(k, 0, {}) : k \in {"Config", "SseParse", "Json", "Subscriber", "Execution"}}
    \cup {ClientError("HttpStatus", s, {}) : s \in StatusCodes}
    \cup {ClientError("HttpTransport", 0, t) : t \in SUBSET {"connect", "timeout", "request"}}

\* No error is being classified.
ErrIdle ==
    /\ clientError = ClientError("", 0, {})
    /\ retryable = <<>>

(***************************************************************************)
(* Subscribers.  A subscriber is what its hooks return: `any` for          *)
(* on_event, `spec` for every event-specific hook, and `bad`, the          *)
(* notification and lifecycle hooks that return an error.  A hook that is  *)
(* not overridden returns Ok(AgentStateMutation::default()).               *)
(***************************************************************************)
HookReturn(err, ms, st, stop) == [err |-> err, messages |-> ms, state |-> st, stop |-> stop]
RetDefault == HookReturn(FALSE, FALSE, FALSE, FALSE)
RetErr == HookReturn(TRUE, FALSE, FALSE, FALSE)

Subscriber(any, spec, bad) == [any |-> any, spec |-> spec, bad |-> bad]

NotifyHooks == {"on_new_message", "on_new_tool_call", "on_messages_changed", "on_state_changed"}
LifecycleHooks == {"on_run_initialized", "on_run_failed", "on_run_finalized"}

\* The event-specific hook handle_event invokes for each event variant.
SpecificHook ==
    [TextMessageStart |-> "on_text_message_start_event",
     TextMessageContent |-> "on_text_message_content_event",
     TextMessageEnd |-> "on_text_message_end_event",
     TextMessageChunk |-> "on_text_message_chunk_event",
     ThinkingTextMessageStart |-> "on_thinking_text_message_start_event",
     ThinkingTextMessageContent |-> "on_thinking_text_message_content_event",
     ThinkingTextMessageEnd |-> "on_thinking_text_message_end_event",
     ToolCallStart |-> "on_tool_call_start_event",
     ToolCallArgs |-> "on_tool_call_args_event",
     ToolCallEnd |-> "on_tool_call_end_event",
     ToolCallChunk |-> "on_tool_call_chunk_event",
     ToolCallResult |-> "on_tool_call_result_event",
     ThinkingStart |-> "on_thinking_start_event",
     ThinkingEnd |-> "on_thinking_end_event",
     StateSnapshot |-> "on_state_snapshot_event",
     StateDelta |-> "on_state_delta_event",
     MessagesSnapshot |-> "on_messages_snapshot_event",
     Raw |-> "on_raw_event",
     Custom |-> "on_custom_event",
     RunStarted |-> "on_run_started_event",
     RunFinished |-> "on_run_finished_event",
     RunError |-> "on_run_error_event",
     StepStarted |-> "on_step_started_event",
     StepFinished |-> "on_step_finished_event"]

EventTypes == DOMAIN SpecificHook
SpecificHooks == {SpecificHook[t] : t \in EventTypes}

\* What the hook `hook` of subscriber sub returns.
ReturnOf(sub, hook) ==
    IF hook = "on_event" THEN sub.any
    ELSE IF hook \in SpecificHooks THEN sub.spec
    ELSE IF hook \in sub.bad THEN RetErr
    ELSE RetDefault

\* The replacement message list and state the i-th subscriber proposes from a hook.
SubMessages(i, hook) ==
    <<PlainMessage("user", (IF hook = "on_event" THEN "a" ELSE "b") \o ToString(i), "x")>>
SubState(i, hook) ==
    [counter |-> 10 * i + (IF hook = "on_event" THEN 1 ELSE 2)]

\* The mutation the i-th subscriber (sub) returns from a hook that returns Ok.
MutationOf(sub, i, hook) ==
    LET r == ReturnOf(sub, hook)
    IN AgentStateMutation(IF r.messages THEN Some(SubMessages(i, hook)) ELSE None,
                          IF r.state THEN Some(SubState(i, hook)) ELSE None,
                          r.stop)

\* One hook invocation: which hook of which subscriber, the borrowed
\* AgentSubscriberParams it observes, and its message/tool-call/error argument.
HookCall(hook, i, obsMessages, obsState, id, error) ==
    [hook |-> hook, sub |-> i, messages |-> obsMessages, state |-> obsState,
     id |-> id, error |-> error]

Min(S) == CHOOSE x \in S : \A y \in S : x <= y

\* The subscriber loop, were it to visit every subscriber and return the
\* first error afterwards.
DispatchThrough(ss, hook, obsMessages, obsState, id, error) ==
    LET bad == {i \in 1..Len(ss) : ReturnOf(ss[i], hook).err}
    IN [calls |-> [i \in 1..Len(ss) |-> HookCall(hook, i, obsMessages, obsState, id, error)],
        err |-> IF bad = {} THEN None ELSE Some(SubscriberError(Min(bad), hook)),
        mutations |-> [i \in 1..(IF bad = {} THEN Len(ss) ELSE Min(bad) - 1) |->
                         MutationOf(ss[i], i, hook)]]

\* The subscriber loop, were it to visit the subscribers last to first.
DispatchReversed(ss, hook, obsMessages, obsState, id, error) ==
    LET n == Len(ss)
        bad == {i \in 1..n : ReturnOf(ss[n + 1 - i], hook).err}
        k == IF bad = {} THEN n ELSE Min(bad)
    IN [calls |-> [i \in 1..k |->
                     HookCall(hook, n + 1 - i, obsMessages, obsState, id, error)],
        err |-> IF bad = {} THEN None ELSE Some(SubscriberError(n + 1 - k, hook)),
        mutations |-> [i \in 1..(IF bad = {} THEN k ELSE k - 1) |->
                         MutationOf(ss[n + 1 - i], n + 1 - i, hook)]]

\* The subscriber loop, were a return with stop_propagation to end it.
DispatchUntilStop(ss, hook, obsMessages, obsState, id, error) ==
    LET bad == {i \in 1..Len(ss) : ReturnOf(ss[i], hook).err}
        halt == {i \in 1..Len(ss) : ReturnOf(ss[i], hook).err \/ ReturnOf(ss[i], hook).stop}
        k == IF halt = {} THEN Len(ss) ELSE Min(halt)
    IN [calls |-> [i \in 1..k |-> HookCall(hook, i, obsMessages, obsState, id, error)],
        err |-> IF k \in bad THEN Some(SubscriberError(k, hook)) ELSE None,
        mutations |-> [i \in 1..(IF k \in bad THEN k - 1 ELSE k) |-> MutationOf(ss[i], i, hook)]]

\* `for subscriber in &self.subscribers { subscriber.hook(..).await? }`:
\* the hook is awaited on one subscriber after another in registration
\* order, and the first error ends the loop.
Dispatch(ss, hook, obsMessages, obsState, id, error) ==
    LET bad == {i \in 1..Len(ss) : ReturnOf(ss[i], hook).err}
        k == IF bad = {} THEN Len(ss) ELSE Min(bad)
    IN [calls |-> [i \in 1..k |-> HookCall(hook, i, obsMessages, obsState, id, error)],
        err |-> IF bad = {} THEN None ELSE Some(SubscriberError(k, hook)),
        mutations |-> [i \in 1..(IF bad = {} THEN k ELSE k - 1) |-> MutationOf(ss[i], i, hook)]]

(***************************************************************************)
(* EventHandler (event_handler.rs).  A handler h is the record of its      *)
(* fields messages, state and result.                                      *)
(***************************************************************************)
Handler(ms, st, res) == [messages |-> ms, state |-> st, result |-> res]

\* What a default reconstruction rule leaves behind: the handler, the
\* current_mutation it recorded, and the error it returned, if any.
Defaulted(h, cur, err) == [h |-> h, cur |-> cur, err |-> err]

ReplaceLast(ms, m) == [ms EXCEPT ![Len(ms)] = m]

\* MessageId::random(): an id no other message of the run carries.
RandomMessageId(seed) == "r" \o ToString(seed)

\* Event::TextMessageStart
TextMessageStartDefault(h, e) ==
    LET ms == Append(h.messages, AssistantMessage(e.message_id, Some(""), None))
    IN Defaulted([h EXCEPT !.messages = ms],
                 [DefaultMutation EXCEPT !.messages = Some(ms)], None)

\* The TextMessageContent rule, were it to store the delta instead of appending it.
TextMessageContentOverwrite(h, e) ==
    IF h.messages # <<>>
    THEN LET m == content_mut(Last(h.messages))
             ms == ReplaceLast(h.messages, [m EXCEPT !.content = Some(e.delta)])
         IN Defaulted([h EXCEPT !.messages = ms],
                      [DefaultMutation EXCEPT !.messages = Some(ms)], None)
    ELSE Defaulted(h, DefaultMutation, None)

\* Event::TextMessageContent
TextMessageContentDefault(h, e) ==
    IF h.messages # <<>>
    THEN LET m == content_mut(Last(h.messages))
             ms == ReplaceLast(h.messages, [m EXCEPT !.content = Some(Unwrap(m.content) \o e.delta)])
         IN Defaulted([h EXCEPT !.messages = ms],
                      [DefaultMutation EXCEPT !.messages = Some(ms)], None)
    ELSE Defaulted(h, DefaultMutation, None)

\* Event::ToolCallStart
ToolCallStartDefault(h, e, seed) ==
    LET new_tool_call == ToolCall(e.tool_call_id, e.tool_call_name, "")
        ms == IF h.messages # <<>>
              THEN IF Some(Last(h.messages).id) = e.parent_message_id
                   THEN LET t == tool_calls_mut(Last(h.messages))
                        IN IF t[2]
                           THEN ReplaceLast(h.messages,
                                    [t[1] EXCEPT !.tool_calls =
                                        Some(Append(Unwrap(t[1].tool_calls), new_tool_call))])
                           ELSE h.messages
                   ELSE h.messages
              ELSE <<AssistantMessage(IF IsSome(e.parent_message_id)
                                      THEN Unwrap(e.parent_message_id)
                                      ELSE RandomMessageId(seed),
                                      None, None)>>
    IN Defaulted([h EXCEPT !.messages = ms],
                 [DefaultMutation EXCEPT !.messages = Some(ms)], None)

\* The ToolCallArgs rule, were the delta to replace the arguments.
ToolCallArgsOverwrite(h, e) ==
    IF h.messages # <<>>
    THEN LET t == tool_calls_mut(Last(h.messages))
         IN IF t[2] /\ Unwrap(t[1].tool_calls) # <<>>
            THEN LET tcs == Unwrap(t[1].tool_calls)
                     tc == [Last(tcs) EXCEPT !.arguments = e.delta]
                     ms == ReplaceLast(h.messages,
                               [t[1] EXCEPT !.tool_calls = Some(ReplaceLast(tcs, tc))])
                 IN Defaulted([h EXCEPT !.messages = ms],
                              [DefaultMutation EXCEPT !.messages = Some(ms)], None)
            ELSE Defaulted(h, DefaultMutation, None)
    ELSE Defaulted(h, DefaultMutation, None)

\* Event::ToolCallArgs
ToolCallArgsDefault(h, e) ==
    IF h.messages # <<>>
    THEN LET t == tool_calls_mut(Last(h.messages))
         IN IF t[2]
            THEN LET tcs == Unwrap(t[1].tool_calls)
                 IN IF tcs # <<>>
                    THEN LET tc == [Last(tcs) EXCEPT !.arguments = @ \o e.delta]
                             ms == ReplaceLast(h.messages,
                                       [t[1] EXCEPT !.tool_calls = Some(ReplaceLast(tcs, tc))])
                         IN Defaulted([h EXCEPT !.messages = ms],
                                      [DefaultMutation EXCEPT !.messages = Some(ms)], None)
                    ELSE Defaulted([h EXCEPT !.messages = ReplaceLast(h.messages, t[1])],
                                   DefaultMutation, None)
            ELSE Defaulted(h, DefaultMutation, None)
    ELSE Defaulted(h, DefaultMutation, None)

\* Event::StateSnapshot
StateSnapshotDefault(h, e) ==
    Defaulted([h EXCEPT !.state = e.snapshot],
              [DefaultMutation EXCEPT !.state = Some(e.snapshot)], None)

PatchOps == {"add", "remove", "replace", "test"}

\* serde_json::from_value::<Vec<PatchOperation>>: an unknown op does not decode.
parse_patch(delta) == \A i \in 1..Len(delta) : delta[i].op \in PatchOps

\* The StateDelta rule, were it to patch self.state in place.
StateDeltaInPlace(h, e) ==
    IF ~parse_patch(e.delta) THEN Defaulted(h, DefaultMutation, Some(JsonError))
    ELSE LET patched == apply_ops(to_value(h.state), e.delta)
         IN IF ~patched[1]
            THEN Defaulted([h EXCEPT !.state = patched[2]], DefaultMutation, Some(ExecutionError))
            ELSE Defaulted([h EXCEPT !.state = patched[2]],
                           [DefaultMutation EXCEPT !.state = Some(patched[2])], None)

\* The StateDelta rule, were it to apply the operations last to first.
StateDeltaReversed(h, e) ==
    LET state_val == to_value(h.state)
        reversed == [i \in 1..Len(e.delta) |-> e.delta[Len(e.delta) + 1 - i]]
    IN IF ~parse_patch(e.delta) THEN Defaulted(h, DefaultMutation, Some(JsonError))
       ELSE LET patched == apply_ops(state_val, reversed)
            IN IF ~patched[1] THEN Defaulted(h, DefaultMutation, Some(ExecutionError))
               ELSE LET new_state == from_value(patched[2])
                    IN IF ~new_state[1] THEN Defaulted(h, DefaultMutation, Some(JsonError))
                       ELSE Defaulted([h EXCEPT !.state = new_state[2]],
                                      [DefaultMutation EXCEPT !.state = Some(new_state[2])],
                                      None)

\* Event::StateDelta
StateDeltaDefault(h, e) ==
    LET state_val == to_value(h.state)
    IN IF ~parse_patch(e.delta) THEN Defaulted(h, DefaultMutation, Some(JsonError))
       ELSE LET patched == apply_ops(state_val, e.delta)
            IN IF ~patched[1] THEN Defaulted(h, DefaultMutation, Some(ExecutionError))
               ELSE LET new_state == from_value(patched[2])
                    IN IF ~new_state[1] THEN Defaulted(h, DefaultMutation, Some(JsonError))
                       ELSE Defaulted([h EXCEPT !.state = new_state[2]],
                                      [DefaultMutation EXCEPT !.state = Some(new_state[2])],
                                      None)

\* The RunFinished rule, were it to keep a result it already holds.
RunFinishedKeepFirst(h, e) ==
    Defaulted([h EXCEPT !.result = IF @ # JsonNull THEN @
                                   ELSE IF IsSome(e.result) THEN Unwrap(e.result) ELSE JsonNull],
              DefaultMutation, None)

\* Event::RunFinished
RunFinishedDefault(h, e) ==
    Defaulted([h EXCEPT !.result = IF IsSome(e.result) THEN Unwrap(e.result) ELSE JsonNull],
              DefaultMutation, None)

\* The arms without default behaviour, were they to reset the message list.
NoDefaultClearing(h, e) ==
    Defaulted([h EXCEPT !.messages = <<>>],
              [DefaultMutation EXCEPT !.messages = Some(<<>>)], None)

\* The arms of `match event` that only notify the subscribers: TextMessageEnd,
\* TextMessageChunk, Thinking*, ToolCallEnd, ToolCallChunk, ToolCallResult,
\* MessagesSnapshot, Raw, Custom, RunStarted, RunError, StepStarted, StepFinished.
NoDefault(h, e) == Defaulted(h, DefaultMutation, None)

\* The default behaviour of the `match event` arms of handle_event.
DefaultRule(h, e, seed) ==
    CASE e.type = "TextMessageStart"   -> TextMessageStartDefault(h, e)
      [] e.type = "TextMessageContent" -> TextMessageContentDefault(h, e)
      [] e.type = "ToolCallStart"      -> ToolCallStartDefault(h, e, seed)
      [] e.type = "ToolCallArgs"       -> ToolCallArgsDefault(h, e)
      [] e.type = "StateSnapshot"      -> StateSnapshotDefault(h, e)
      [] e.type = "StateDelta"         -> StateDeltaDefault(h, e)
      [] e.type = "RunFinished"        -> RunFinishedDefault(h, e)
      [] OTHER                         -> NoDefault(h, e)

\* update_from_mutation, were it to copy the message list only.
update_from_mutation_messages_only(h, mutation) ==
    [h EXCEPT !.messages = IF IsSome(mutation.messages) THEN Unwrap(mutation.messages) ELSE @]

\* EventHandler::update_from_mutation
update_from_mutation(h, mutation) ==
    [h EXCEPT !.messages = IF IsSome(mutation.messages) THEN Unwrap(mutation.messages) ELSE @,
              !.state = IF IsSome(mutation.state) THEN Unwrap(mutation.state) ELSE @]

\* process_mutation, were it to store a mutation's fields without looking
\* whether they are set.
process_mutation_unguarded(h, mutation, current_mutation) ==
    <<[h EXCEPT !.messages = IF IsSome(mutation.messages) THEN Unwrap(mutation.messages)
                             ELSE <<>>],
      [current_mutation EXCEPT !.messages = IF IsSome(mutation.messages) THEN mutation.messages
                                            ELSE Some(<<>>)]>>

\* EventHandler::process_mutation: <<the handler, current_mutation>> after the call.
process_mutation(h, mutation, current_mutation) ==
    IF IsSome(mutation.messages) \/ IsSome(mutation.state)
    THEN <<update_from_mutation(h, mutation),
           [current_mutation EXCEPT
               !.messages = IF IsSome(mutation.messages) THEN mutation.messages ELSE @,
               !.state = IF IsSome(mutation.state) THEN mutation.state ELSE @]>>
    ELSE <<h, current_mutation>>

\* The merge loop, were it to ignore the stop flag.
StopsMergeNever(mutation) == FALSE

\* `if mutation.stop_propagation` of the merge loop.
StopsMerge(mutation) == mutation.stop_propagation

HasReplacement(mutation) == IsSome(mutation.messages) \/ IsSome(mutation.state)

\* `for mutation in mutations { .. }` at the end of handle_event, from the
\* i-th collected mutation on: the handler, the mutation handle_event
\* returns, and the indices of the mutations whose replacement was written
\* to the handler.
RECURSIVE MergeLoop(_, _, _, _, _)
MergeLoop(h, current_mutation, mutations, i, applied) ==
    IF i > Len(mutations)
    THEN [h |-> h, ret |-> current_mutation, applied |-> applied]
    ELSE LET mutation == mutations[i]
             now == IF HasReplacement(mutation) THEN applied \cup {i} ELSE applied
         IN IF StopsMerge(mutation)
            THEN [h |-> update_from_mutation(h, mutation), ret |-> mutation, applied |-> now]
            ELSE LET p == process_mutation(h, mutation, current_mutation)
                 IN MergeLoop(p[1], p[2], mutations, i + 1, now)

\* What handle_event did: the handler after it, the mutation (ret) or the
\* error (err) it returned, the hooks it invoked, the handler as the
\* event-specific hooks observed it (postDefault), the mutations it
\* collected and the ones it applied.
Handled(h, ret, err, calls, postDefault, collected, applied) ==
    [h |-> h, ret |-> ret, err |-> err, calls |-> calls, postDefault |-> postDefault,
     collected |-> collected, applied |-> applied]

\* handle_event, were every collected mutation merged as soon as its dispatch
\* point is over instead of after the event-specific hooks.
handle_event_eager(h, e, ss, seed) ==
    LET any == Dispatch(ss, "on_event", h.messages, h.state, "", NoError)
    IN IF IsSome(any.err)
       THEN Handled(h, None, any.err, any.calls, None, any.mutations, {})
       ELSE
       LET m1 == MergeLoop(h, DefaultMutation, any.mutations, 1, {})
           d == DefaultRule(m1.h, e, seed)
       IN IF IsSome(d.err)
          THEN Handled(d.h, None, d.err, any.calls, None, any.mutations, {})
          ELSE
          LET spec == Dispatch(ss, SpecificHook[e.type], d.h.messages, d.h.state, "", NoError)
              mutations == any.mutations \o spec.mutations
          IN IF IsSome(spec.err)
             THEN Handled(d.h, None, spec.err, any.calls \o spec.calls, Some(d.h), mutations, {})
             ELSE LET m == MergeLoop(d.h, d.cur, mutations, 1, {})
                  IN Handled(m.h, Some(m.ret), None, any.calls \o spec.calls, Some(d.h),
                             mutations, m.applied)

\* EventHandler::handle_event
handle_event(h, e, ss, seed) ==
    LET any == Dispatch(ss, "on_event", h.messages, h.state, "", NoError)
    IN IF IsSome(any.err)
       THEN Handled(h, None, any.err, any.calls, None, any.mutations, {})
       ELSE
       LET d == DefaultRule(h, e, seed)
       IN IF IsSome(d.err)
          THEN Handled(d.h, None, d.err, any.calls, None, any.mutations, {})
          ELSE
          LET spec == Dispatch(ss, SpecificHook[e.type], d.h.messages, d.h.state, "", NoError)
              mutations == any.mutations \o spec.mutations
          IN IF IsSome(spec.err)
             THEN Handled(d.h, None, spec.err, any.calls \o spec.calls, Some(d.h), mutations, {})
             ELSE LET m == MergeLoop(d.h, d.cur, mutations, 1, {})
                  IN Handled(m.h, Some(m.ret), None, any.calls \o spec.calls, Some(d.h),
                             mutations, m.applied)

\* The dispatch points of apply_mutation's message part, in order: for every
\* new message on_new_message, then on_new_tool_call for each of its tool
\* calls when it is an assistant message that has some.
RECURSIVE ToolCallPoints(_)
ToolCallPoints(tcs) ==
    IF tcs = <<>> THEN <<>>
    ELSE <<[hook |-> "on_new_tool_call", id |-> Head(tcs).id]>> \o ToolCallPoints(Tail(tcs))

RECURSIVE NewMessagePoints(_)
NewMessagePoints(new_messages) ==
    IF new_messages = <<>> THEN <<>>
    ELSE LET message == Head(new_messages)
         IN <<[hook |-> "on_new_message", id |-> message.id]>>
            \o (IF message.role = "assistant" /\ IsSome(tool_calls(message))
                THEN ToolCallPoints(Unwrap(tool_calls(message)))
                ELSE <<>>)
            \o NewMessagePoints(Tail(new_messages))

\* The diff of apply_mutation, were it to take every incoming message as new.
NewMessagesAll(old, incoming) == incoming

\* The messages of `incoming` whose id is not among the ids of `old`.
NewMessages(old, incoming) ==
    SelectSeq(incoming, LAMBDA m : m.id \notin MessageIdsOf(old))

\* The hook invocations of a sequence of dispatch points, every point
\* visiting the subscribers in registration order, up to and including the
\* first invocation that returns an error: [calls, err].
RunPoints(ss, points, obsMessages, obsState) ==
    LET n == Len(ss)
        all == [i \in 1..(Len(points) * n) |->
                  LET pt == points[((i - 1) \div n) + 1]
                  IN HookCall(pt.hook, ((i - 1) % n) + 1, obsMessages, obsState, pt.id, NoError)]
        bad == {i \in 1..Len(all) : ReturnOf(ss[all[i].sub], all[i].hook).err}
    IN IF bad = {} THEN [calls |-> all, err |-> None]
       ELSE [calls |-> SubSeq(all, 1, Min(bad)),
             err |-> Some(SubscriberError(all[Min(bad)].sub, all[Min(bad)].hook))]

\* EventHandler::apply_mutation: the handler after it, the error it
\* returned, if any, and the hooks it invoked.
apply_mutation(h, mutation, ss) ==
    LET msgPart ==
            IF IsSome(mutation.messages)
            THEN LET incoming == Unwrap(mutation.messages)
                     new_messages == NewMessages(h.messages, incoming)
                 IN RunPoints(ss, NewMessagePoints(new_messages)
                                  \o <<[hook |-> "on_messages_changed", id |-> ""]>>,
                              incoming, h.state)
            ELSE [calls |-> <<>>, err |-> None]
        h1 == [h EXCEPT !.messages = IF IsSome(mutation.messages)
                                     THEN Unwrap(mutation.messages) ELSE @]
    IN IF IsSome(msgPart.err)
       THEN [h |-> h1, err |-> msgPart.err, calls |-> msgPart.calls]
       ELSE IF IsSome(mutation.state)
            THEN LET h2 == [h1 EXCEPT !.state = Unwrap(mutation.state)]
                     stPart == RunPoints(ss, <<[hook |-> "on_state_changed", id |-> ""]>>,
                                         h2.messages, h2.state)
                 IN [h |-> h2, err |-> stPart.err, calls |-> msgPart.calls \o stPart.calls]
            ELSE [h |-> h1, err |-> None, calls |-> msgPart.calls]

\* on_error, were it to only log the error.
on_error_log_only(h, error, ss) ==
    [calls |-> <<>>, err |-> None, mutations |-> <<>>]

\* on_error, were it to drop the error of a failing on_run_failed.
on_error_ignoring_failure(h, error, ss) ==
    [Dispatch(ss, "on_run_failed", h.messages, h.state, "", error) EXCEPT !.err = None]

\* EventHandler::on_error
on_error(h, error, ss) ==
    Dispatch(ss, "on_run_failed", h.messages, h.state, "", error)

\* on_finalize, were it to notify the first subscriber only.
on_finalize_first_only(h, ss) ==
    [calls |-> IF ss = <<>> THEN <<>>
               ELSE <<HookCall("on_run_finalized", 1, h.messages, h.state, "", NoError)>>,
     err |-> None, mutations |-> <<>>]

\* EventHandler::on_finalize
on_finalize(h, ss) ==
    Dispatch(ss, "on_run_finalized", h.messages, h.state, "", NoError)

(***************************************************************************)
(* The inputs of the exploration: the caller's params, the subscribers     *)
(* attached to the run and the items the event stream can deliver.         *)
(***************************************************************************)
DefaultState == [counter |-> 0]

ParamChoices ==
    {[messages |-> ms, state |-> DefaultState] :
        ms \in {<<>>,
                <<PlainMessage("user", "m1", "hi")>>,
                <<AssistantMessage("m1", Some("hi"), None)>>}}

SubscriberChoices ==
    {Subscriber(RetDefault, RetDefault, {}),
     Subscriber(HookReturn(FALSE, TRUE, FALSE, FALSE), HookReturn(FALSE, FALSE, TRUE, FALSE), {}),
     Subscriber(HookReturn(FALSE, FALSE, TRUE, TRUE), RetDefault, {}),
     Subscriber(RetDefault, HookReturn(FALSE, FALSE, TRUE, TRUE), {}),
     Subscriber(RetErr, RetDefault, {"on_run_finalized"}),
     Subscriber(RetDefault, RetErr, {"on_run_failed"}),
     Subscriber(RetDefault, RetDefault,
                {"on_new_message", "on_new_tool_call", "on_messages_changed",
                 "on_state_changed"})}

SubscriberLists == UNION {[1..n -> SubscriberChoices] : n \in 0..MaxSubs}

Deltas == {"a", "b"}

PatchChoices ==
    {<<PatchOp("replace", "counter", 5)>>,
     <<PatchOp("replace", "counter", 1), PatchOp("replace", "note", 2)>>,
     <<PatchOp("add", "note", 1), PatchOp("replace", "note", 2)>>,
     <<PatchOp("remove", "counter", 0)>>,
     <<PatchOp("bogus", "counter", 0)>>}

Events ==
    {[type |-> "TextMessageStart", message_id |-> m] : m \in {"m1", "m2"}}
    \cup {[type |-> "TextMessageContent", message_id |-> "m2", delta |-> d] : d \in Deltas}
    \cup {[type |-> "TextMessageEnd", message_id |-> "m2"]}
    \cup {[type |-> "ToolCallStart", tool_call_id |-> "t1", tool_call_name |-> "f",
           parent_message_id |-> p] : p \in {None, Some("m1"), Some("m2")}}
    \cup {[type |-> "ToolCallArgs", tool_call_id |-> "t1", delta |-> "a"]}
    \cup {[type |-> "StateSnapshot", snapshot |-> [counter |-> 7]]}
    \cup {[type |-> "StateDelta", delta |-> p] : p \in PatchChoices}
    \cup {[type |-> "RunFinished", result |-> r] : r \in {None, Some("r1")}}
    \cup {[type |-> "RunStarted"]}

NoEvent == [type |-> "none"]

\* The error items a stream can yield: a transport error, a frame/UTF-8
\* parse error (sse.rs) and an event-decode error (http.rs).
StreamErrors == {AgentError(k, 0, "") : k \in {"HttpTransport", "SseParse", "Json"}}

\* The errors Agent::run can return instead of a stream (http.rs).
RunErrors == {AgentError(k, 0, "") : k \in {"HttpTransport", "HttpStatus"}}

(***************************************************************************)
(* Agent::run_agent (agent.rs).                                            *)
(***************************************************************************)
NoOutcome ==
    [kind |-> "none", error |-> NoError, result |-> JsonNull, new_messages |-> <<>>,
     new_state |-> DefaultState]
Failure(error) == [NoOutcome EXCEPT !.kind = "err", !.error = error]
\* Ok(RunAgentResult { result, new_messages, new_state })
Success(res, new_messages, new_state) ==
    [kind |-> "ok", error |-> NoError, result |-> res, new_messages |-> new_messages,
     new_state |-> new_state]

\* What one step of run_agent did; merged is the handler as handle_event
\* left it when it returned Ok.
Step(step, ev, error, calls, postDefault, collected, applied, ret, failedIn) ==
    [step |-> step, ev |-> ev, error |-> error, calls |-> calls, postDefault |-> postDefault,
     collected |-> collected, applied |-> applied, ret |-> ret, failedIn |-> failedIn,
     merged |-> None]
NoStep == Step("none", NoEvent, NoError, <<>>, None, <<>>, {}, None, "")

\* The <<subscriber, message id>> pairs of the on_new_message invocations among calls.
RECURSIVE NewMessageCalls(_)
NewMessageCalls(calls) ==
    IF calls = <<>> THEN <<>>
    ELSE (IF Head(calls).hook = "on_new_message"
          THEN <<<<Head(calls).sub, Head(calls).id>>>> ELSE <<>>)
         \o NewMessageCalls(Tail(calls))

\* What the decoder did with a chunk: whether the chunk was valid UTF-8, the
\* text it split (the retained text plus the chunk) and the items it emitted.
Decoded(fed, buffered, emitted) == [fed |-> fed, buffered |-> buffered, emitted |-> emitted]
NoChunk == Decoded(FALSE, <<>>, <<>>)

\* A run_agent call next to the one the run variables follow: its position,
\* its subscribers, the fields of its own EventHandler and the Ok items its
\* stream has yielded.
OtherRun(ph, ss, h, n, items) ==
    [phase |-> ph, subs |-> ss, messages |-> h.messages, state |-> h.state,
     result |-> h.result, nEvents |-> n, delivered |-> items]
NoRun == OtherRun("None", <<>>, Handler(<<>>, DefaultState, JsonNull), 0, <<>>)

SseIdle ==
    /\ sseRest = <<>>
    /\ sseBuffer = <<>>
    /\ sseOut = <<>>
    /\ sseWhole = <<>>
    /\ sseDone = FALSE
    /\ sseLast = NoChunk

Init ==
    /\ phase = "Idle"
    /\ params \in ParamChoices
    /\ subs \in SubscriberLists
    /\ messages = <<>>
    /\ state = DefaultState
    /\ result = JsonNull
    /\ outcome = NoOutcome
    /\ nEvents = 0
    /\ last = NoStep
    /\ newMsgLog = <<>>
    /\ delivered = <<>>
    /\ SseIdle
    /\ ErrIdle
    /\ other = NoRun

\* run_agent up to `self.run(&input).await?`, the transport call succeeding:
\* the handler is built from clones of the params.
StartRun ==
    /\ phase = "Idle"
    /\ phase' = "Running"
    /\ messages' = params.messages
    /\ state' = params.state
    /\ result' = JsonNull
    /\ last' = Step("run", NoEvent, NoError, <<>>, None, <<>>, {}, None, "")
    /\ UNCHANGED <<params, subs, outcome, nEvents, newMsgLog, delivered, sseVars, errVars, other>>

\* run_agent up to `self.run(&input).await?`, the transport call failing.
StartRunFails(e) ==
    /\ phase = "Idle"
    /\ phase' = "Returned"
    /\ messages' = params.messages
    /\ state' = params.state
    /\ result' = JsonNull
    /\ outcome' = Failure(e)
    /\ last' = Step("run", NoEvent, e, <<>>, None, <<>>, {}, None, "run")
    /\ UNCHANGED <<params, subs, nEvents, newMsgLog, delivered, sseVars, errVars, other>>

\* One turn of the loop, the stream yielding Ok(event): handle_event, then
\* apply_mutation; an error of either is returned at once.
OkItem(e) ==
    /\ phase = "Running"
    /\ \E hd \in {handle_event(Handler(messages, state, result), e, subs, nEvents + 1)} :
          IF IsSome(hd.err)
          THEN /\ messages' = hd.h.messages
               /\ state' = hd.h.state
               /\ result' = hd.h.result
               /\ phase' = "Returned"
               /\ outcome' = Failure(Unwrap(hd.err))
               /\ last' = Step("event", e, NoError, hd.calls, hd.postDefault, hd.collected,
                               hd.applied, None, "handle_event")
               /\ newMsgLog' = newMsgLog
          ELSE \E ap \in {apply_mutation(hd.h, Unwrap(hd.ret), subs)} :
                  /\ messages' = ap.h.messages
                  /\ state' = ap.h.state
                  /\ result' = ap.h.result
                  /\ phase' = IF IsSome(ap.err) THEN "Returned" ELSE "Running"
                  /\ outcome' = IF IsSome(ap.err) THEN Failure(Unwrap(ap.err)) ELSE outcome
                  /\ last' = [Step("event", e, NoError, hd.calls \o ap.calls, hd.postDefault,
                                   hd.collected, hd.applied, hd.ret,
                                   IF IsSome(ap.err) THEN "apply_mutation" ELSE "")
                               EXCEPT !.merged = Some(hd.h)]
                  /\ newMsgLog' = newMsgLog \o NewMessageCalls(ap.calls)
    /\ nEvents' = nEvents + 1
    /\ UNCHANGED <<params, subs, sseVars, errVars, other>>

\* The stream of a run yields an Ok item, any event of the exploration.
StreamEvent(e) ==
    /\ nEvents < MaxEvents
    /\ OkItem(e)
    /\ UNCHANGED delivered

\* One turn of the loop, the stream yielding Err(e): on_error, then return Err(e).
StreamError(e) ==
    /\ phase = "Running"
    /\ \E oe \in {on_error(Handler(messages, state, result), e, subs)} :
          /\ outcome' = Failure(IF IsSome(oe.err) THEN Unwrap(oe.err) ELSE e)
          /\ last' = Step("error", NoEvent, e, oe.calls, None, <<>>, {}, None,
                          IF IsSome(oe.err) THEN "on_error" ELSE "stream")
    /\ phase' = "Returned"
    /\ UNCHANGED <<params, subs, messages, state, result, nEvents, newMsgLog, delivered,
                   sseVars, errVars, other>>

\* "Collect new messages", were it to return the whole canonical list.
CollectAllMessages(final, initial) == final

\* "Collect new messages" of run_agent: the messages of the handler whose id
\* is not among the ids of the params' messages.
CollectNewMessages(final, initial) ==
    LET current_message_ids == MessageIdsOf(initial)
    IN SelectSeq(final, LAMBDA m : m.id \notin current_message_ids)

\* The stream ends: on_finalize, then the result is built from the handler.
StreamEnd ==
    /\ phase = "Running"
    /\ \E fin \in {on_finalize(Handler(messages, state, result), subs)} :
       LET new_messages == CollectNewMessages(messages, params.messages)
       IN /\ outcome' = IF IsSome(fin.err) THEN Failure(Unwrap(fin.err))
                        ELSE Success(result, new_messages, state)
          /\ last' = Step("end", NoEvent, NoError, fin.calls, None, <<>>, {}, None,
                          IF IsSome(fin.err) THEN "on_finalize" ELSE "")
    /\ phase' = "Returned"
    /\ UNCHANGED <<params, subs, messages, state, result, nEvents, newMsgLog, delivered,
                   sseVars, errVars, other>>

Next ==
    \/ StartRun
    \/ \E e \in RunErrors : StartRunFails(e)
    \/ \E e \in Events : StreamEvent(e)
    \/ \E e \in StreamErrors : StreamError(e)
    \/ StreamEnd

Spec == Init /\ [][Next]_vars

TypeOK ==
    /\ phase \in {"Idle", "Running", "Returned"}
    /\ nEvents \in 0..MaxEvents
    /\ outcome.kind \in {"none", "ok", "err"}
    /\ (phase = "Returned") = (outcome.kind # "none")

(***************************************************************************)
(* The SSE frame decoder (sse.rs).  A byte string is a sequence of bytes   *)
(* and a text a sequence of characters; an ASCII character is one byte,    *)
(* and the character "é" is the two bytes 0xC3 0xA9.                       *)
(***************************************************************************)
LF == "\n"
LeadByte == "C3"
ContByte == "A9"

\* String::from_utf8: <<ok, text>>.  The bytes are valid when every lead
\* byte is followed by a continuation byte and every continuation byte
\* follows a lead byte; the text then has one character for each such pair.
from_utf8(bytes) ==
    LET valid == \A i \in 1..Len(bytes) :
                    /\ bytes[i] = LeadByte => (i < Len(bytes) /\ bytes[i + 1] = ContByte)
                    /\ bytes[i] = ContByte => (i > 1 /\ bytes[i - 1] = LeadByte)
        kept == SelectSeq(bytes, LAMBDA b : b # ContByte)
    IN IF valid
       THEN <<TRUE, [i \in 1..Len(kept) |-> IF kept[i] = LeadByte THEN "é" ELSE kept[i]]>>
       ELSE <<FALSE, <<>>>>

starts_with(text, prefix) ==
    Len(text) >= Len(prefix) /\ SubSeq(text, 1, Len(prefix)) = prefix
ends_with(text, suffix) ==
    Len(text) >= Len(suffix) /\ SubSeq(text, Len(text) - Len(suffix) + 1, Len(text)) = suffix
\* str::strip_prefix, for a text that starts with the prefix.
DropPrefix(text, prefix) == SubSeq(text, Len(prefix) + 1, Len(text))

\* str::split(sep): the pieces between the non-overlapping occurrences of sep,
\* found from the left.
RECURSIVE split(_, _)
split(text, sep) ==
    LET found == {i \in 1..(Len(text) - Len(sep) + 1) : SubSeq(text, i, i + Len(sep) - 1) = sep}
    IN IF found = {} THEN <<text>>
       ELSE <<SubSeq(text, 1, Min(found) - 1)>>
            \o split(SubSeq(text, Min(found) + Len(sep), Len(text)), sep)

\* str::lines, for texts without carriage returns: a final empty line is not a line.
lines(text) ==
    LET ls == split(text, <<LF>>)
    IN IF Last(ls) = <<>> THEN Front(ls) ELSE ls

\* str::trim, for texts whose only whitespace is the space.
RECURSIVE trim_start(_)
trim_start(text) ==
    IF text # <<>> /\ Head(text) = " " THEN trim_start(Tail(text)) ELSE text
RECURSIVE trim_end(_)
trim_end(text) ==
    IF text # <<>> /\ Last(text) = " " THEN trim_end(Front(text)) ELSE text
trim(text) == trim_end(trim_start(text))

RECURSIVE join(_, _)
join(pieces, sep) ==
    IF pieces = <<>> THEN <<>>
    ELSE IF Len(pieces) = 1 THEN pieces[1]
    ELSE pieces[1] \o sep \o join(Tail(pieces), sep)

EventPrefix == <<"e", "v", "e", "n", "t", ":">>
IdPrefix == <<"i", "d", ":">>
DataPrefix == <<"d", "a", "t", "a", ":">>

\* An item of the decoder's output stream: Ok(SseEvent { event, id, data }) or Err(error).
SseEvent(event, id, data) == [ok |-> TRUE, event |-> event, id |-> id, data |-> data, error |-> ""]
SseErr(kind) == [ok |-> FALSE, event |-> None, id |-> None, data |-> <<>>, error |-> kind]

\* The content of a data line, were every leading space trimmed.
data_content_trimmed(value) == trim_start(value)

\* `value.strip_prefix(" ").unwrap_or(value)`
data_content(value) ==
    IF starts_with(value, <<" ">>) THEN DropPrefix(value, <<" ">>) ELSE value

\* The loop of parse_sse_event, were an event: or id: line to count only
\* when no earlier one was seen.
RECURSIVE ParseLinesFirstWins(_, _, _, _, _)
ParseLinesFirstWins(ls, i, event, id, data_lines) ==
    IF i > Len(ls) THEN SseEvent(event, id, join(data_lines, <<LF>>))
    ELSE LET line == ls[i]
         IN IF line = <<>> THEN ParseLinesFirstWins(ls, i + 1, event, id, data_lines)
            ELSE IF starts_with(line, EventPrefix)
                 THEN ParseLinesFirstWins(ls, i + 1,
                                          IF IsSome(event) THEN event
                                          ELSE Some(trim(DropPrefix(line, EventPrefix))),
                                          id, data_lines)
            ELSE IF starts_with(line, IdPrefix)
                 THEN ParseLinesFirstWins(ls, i + 1, event,
                                          IF IsSome(id) THEN id
                                          ELSE Some(trim(DropPrefix(line, IdPrefix))),
                                          data_lines)
            ELSE IF starts_with(line, DataPrefix)
                 THEN ParseLinesFirstWins(ls, i + 1, event, id,
                                          Append(data_lines,
                                                 data_content(DropPrefix(line, DataPrefix))))
            ELSE ParseLinesFirstWins(ls, i + 1, event, id, data_lines)

\* The `for line in event_text.lines()` loop of parse_sse_event: the frame after line i.
RECURSIVE ParseLines(_, _, _, _, _)
ParseLines(ls, i, event, id, data_lines) ==
    IF i > Len(ls) THEN SseEvent(event, id, join(data_lines, <<LF>>))
    ELSE LET line == ls[i]
         IN IF line = <<>> THEN ParseLines(ls, i + 1, event, id, data_lines)
            ELSE IF starts_with(line, EventPrefix)
                 THEN ParseLines(ls, i + 1, Some(trim(DropPrefix(line, EventPrefix))), id,
                                 data_lines)
            ELSE IF starts_with(line, IdPrefix)
                 THEN ParseLines(ls, i + 1, event, Some(trim(DropPrefix(line, IdPrefix))),
                                 data_lines)
            ELSE IF starts_with(line, DataPrefix)
                 THEN LET value == DropPrefix(line, DataPrefix)
                      IN ParseLines(ls, i + 1, event, id,
                                    Append(data_lines, data_content(value)))
            ELSE ParseLines(ls, i + 1, event, id, data_lines)

\* parse_sse_event
parse_sse_event(event_text) == ParseLines(lines(event_text), 1, None, None, <<>>)

\* The loop over the complete chunks, were it to parse the empty ones too.
RECURSIVE ParseEvery(_)
ParseEvery(chunks) ==
    IF chunks = <<>> THEN <<>>
    ELSE <<parse_sse_event(Head(chunks))>> \o ParseEvery(Tail(chunks))

\* `for chunk in complete_chunks { if !chunk.is_empty() { results.push(..) } }`
RECURSIVE ParseNonEmpty(_)
ParseNonEmpty(chunks) ==
    IF chunks = <<>> THEN <<>>
    ELSE (IF Head(chunks) # <<>> THEN <<parse_sse_event(Head(chunks))>> ELSE <<>>)
         \o ParseNonEmpty(Tail(chunks))

Separator == <<LF, LF>>

\* process_raw_sse_events, were it to return an empty buffer in every case.
process_raw_sse_events_dropping_tail(buffer) ==
    LET chunks == split(buffer, Separator)
    IN <<ParseNonEmpty(IF ends_with(buffer, Separator) THEN chunks ELSE Front(chunks)), <<>>>>

\* process_raw_sse_events: <<events, new_buffer>>.
process_raw_sse_events(buffer) ==
    LET chunks == split(buffer, Separator)
    IN IF Len(chunks) = 1 /\ ~ends_with(buffer, Separator)
       THEN <<<<>>, buffer>>
       ELSE LET complete_chunks == IF ends_with(buffer, Separator) THEN chunks
                                   ELSE Front(chunks)
                new_buffer == IF ~ends_with(buffer, Separator) /\ chunks # <<>>
                              THEN Last(chunks) ELSE <<>>
            IN <<ParseNonEmpty(complete_chunks), new_buffer>>

\* The closure SseEventProcessor::new maps over the byte stream, for a chunk
\* that arrived: <<items emitted, buffer after>>.
ProcessChunk(buffer, chunk) ==
    LET text == from_utf8(chunk)
    IN IF text[1]
       THEN process_raw_sse_events(buffer \o text[2])
       ELSE <<<<SseErr("SseParse")>>, buffer>>

\* The end of the byte stream, were the retained text parsed as a last segment.
at_end_of_stream_flushing(buffer) ==
    IF buffer = <<>> THEN <<>> ELSE <<parse_sse_event(buffer)>>

\* `stream.map(..).flat_map(..)`: the closure runs on chunks only, so that
\* the decoder emits nothing when the byte stream ends, whatever it retains.
at_end_of_stream(buffer) == <<>>

\* The segments a well-formed body is made of (non-empty lines, no blank line).
Segments ==
    {<<"d", "a", "t", "a", ":", " ", "X">>,
     <<"d", "a", "t", "a", ":", " ", "a", LF, "d", "a", "t", "a", ":", " ", "b">>,
     <<"e", "v", "e", "n", "t", ":", " ", "e", LF, "i", "d", ":", "1", LF, "r", ":", "5">>}

RECURSIVE Terminated(_)
Terminated(segs) ==
    IF segs = <<>> THEN <<>> ELSE Head(segs) \o Separator \o Terminated(Tail(segs))

\* How a body ends: with nothing more, with a segment the blank line of which
\* has not been sent, with a complete segment that holds a two-byte
\* character, or with a segment followed by three newlines.
Tails ==
    {<<>>,
     <<"d", "a", "t", "a", ":", " ", "X">>,
     <<"d", "a", "t", "a", ":", LeadByte, ContByte, LF, LF>>,
     <<"d", "a", "t", "a", ":", " ", " ", "b", LF, LF, LF>>}

\* Well-formed bodies: up to MaxFrames segments, each followed by the blank
\* line, and then one of the tails.
Bodies ==
    {Terminated(segs) \o tail :
        segs \in UNION {[1..n -> Segments] : n \in 0..MaxFrames}, tail \in Tails}

RunIdle ==
    /\ phase = "Idle"
    /\ params = [messages |-> <<>>, state |-> DefaultState]
    /\ subs = <<>>
    /\ messages = <<>>
    /\ state = DefaultState
    /\ result = JsonNull
    /\ outcome = NoOutcome
    /\ nEvents = 0
    /\ last = NoStep
    /\ newMsgLog = <<>>
    /\ delivered = <<>>
    /\ other = NoRun

InitSse ==
    /\ RunIdle
    /\ ErrIdle
    /\ sseWhole \in Bodies
    /\ sseRest = sseWhole
    /\ sseBuffer = <<>>
    /\ sseOut = <<>>
    /\ sseDone = FALSE
    /\ sseLast = NoChunk

\* The next k bytes of the body arrive as one chunk and go through the
\* closure of SseEventProcessor::new.
Feed(k) ==
    /\ ~sseDone
    /\ k \in 1..Len(sseRest)
    /\ LET r == ProcessChunk(sseBuffer, SubSeq(sseRest, 1, k))
       IN /\ sseOut' = sseOut \o r[1]
          /\ sseBuffer' = r[2]
    /\ sseRest' = SubSeq(sseRest, k + 1, Len(sseRest))
    /\ UNCHANGED <<sseWhole, sseDone, runVars, errVars>>

\* The next k bytes of the body arrive as one chunk.
FeedChunk(k) ==
    /\ Feed(k)
    /\ UNCHANGED sseLast

\* The byte stream yields a transport error instead of a chunk; a response
\* body yields nothing after an error.
ChunkError ==
    /\ ~sseDone
    /\ sseOut' = Append(sseOut, SseErr("HttpTransport"))
    /\ sseDone' = TRUE
    /\ UNCHANGED <<sseRest, sseBuffer, sseWhole, sseLast, runVars, errVars>>

\* The byte stream ends (all of the body sent, or the host closed it early).
StreamClosed ==
    /\ ~sseDone
    /\ sseDone' = TRUE
    /\ sseOut' = sseOut \o at_end_of_stream(sseBuffer)
    /\ UNCHANGED <<sseRest, sseBuffer, sseWhole, sseLast, runVars, errVars>>

NextSse ==
    \/ \E k \in 1..Len(sseRest) : FeedChunk(k)
    \/ ChunkError
    \/ StreamClosed

SpecSse == InitSse /\ [][NextSse]_vars

\* The frames the decoder emits for the whole body fed as a single chunk.
WholeFrames == ProcessChunk(<<>>, sseWhole)[1]

(***************************************************************************)
(* Properties of the run executor, checked under Spec.                     *)
(***************************************************************************)
Count(seq, x) == Cardinality({k \in 1..Len(seq) : seq[k] = x})
SubIndices == 1..Len(subs)
\* The step that led to this state handled an event for which handle_event returned Ok.
MergedEvent == last.step = "event" /\ IsSome(last.ret)
\* The hook `hook` was invoked on subscriber i during the last step.
Invoked(hook, i) == \E k \in 1..Len(last.calls) : last.calls[k].hook = hook /\ last.calls[k].sub = i

\* C1: between events and at a successful return, on_new_message has fired
\* exactly once on every subscriber for every id of the canonical list that
\* was not in the initial input, and never more than once for any id.
C1_NewMessageOncePerNewId ==
    (phase = "Running" \/ outcome.kind = "ok") =>
        /\ \A i \in SubIndices :
             \A id \in MessageIdsOf(messages) \ MessageIdsOf(params.messages) :
                Count(newMsgLog, <<i, id>>) = 1
        /\ \A k \in 1..Len(newMsgLog) : Count(newMsgLog, newMsgLog[k]) = 1

\* C2: whenever run_agent has returned, on whatever path, on_run_finalized
\* was invoked on every subscriber.
C2_FinalizedOnEveryPath ==
    phase = "Returned" => \A i \in SubIndices : Invoked("on_run_finalized", i)

\* C3: when a subscriber hook fails while an event is handled, the error
\* run_agent returns was first passed to on_run_failed of the subscribers.
C3_HookFailureReported ==
    (phase = "Returned" /\ last.step = "event" /\ outcome.error.kind = "Subscriber") =>
        \A i \in SubIndices :
            \E k \in 1..Len(last.calls) :
                /\ last.calls[k].hook = "on_run_failed"
                /\ last.calls[k].sub = i
                /\ last.calls[k].error = outcome.error

\* C4 as stated: on a stream error item on_run_failed is invoked with that
\* error on every subscriber in registration order, and run_agent returns
\* that same error.
C4_StreamErrorReportedToAll ==
    last.step = "error" =>
        /\ last.calls = [i \in SubIndices |->
                            HookCall("on_run_failed", i, messages, state, "", last.error)]
        /\ outcome = Failure(last.error)

FailsRunFailed(i) == ReturnOf(subs[i], "on_run_failed").err

\* C4 as amended: on a stream error item on_run_failed is invoked with that
\* error on the subscribers in registration order, up to and including the
\* first one whose on_run_failed fails; run_agent then returns the stream
\* error if none failed and that hook's error otherwise; nothing is handled
\* after run_agent has returned.
C4_StreamErrorReported ==
    /\ [](last.step = "error" =>
            /\ phase = "Returned"
            /\ \A k \in 1..Len(last.calls) :
                 /\ last.calls[k] = HookCall("on_run_failed", k, messages, state, "", last.error)
                 /\ k < Len(last.calls) => ~FailsRunFailed(k)
            /\ Len(last.calls) <= Len(subs)
            /\ Len(last.calls) < Len(subs) =>
                 (last.calls # <<>> /\ FailsRunFailed(Len(last.calls)))
            /\ outcome.kind = "err"
            /\ outcome.error = IF last.calls # <<>> /\ FailsRunFailed(Len(last.calls))
                               THEN SubscriberError(Len(last.calls), "on_run_failed")
                               ELSE last.error)
    /\ [][phase # "Returned"]_vars

\* C4 witness: a stream error was reported to two subscribers and returned.
C4_Witness ==
    /\ last.step = "error"
    /\ Len(subs) = 2
    /\ Len(last.calls) = 2
    /\ outcome = Failure(last.error)

\* C5: whenever run_agent has returned a failure, on_run_failed was invoked
\* on every subscriber.
C5_EveryFailureReported ==
    outcome.kind = "err" => \A i \in SubIndices : Invoked("on_run_failed", i)

\* The subscriber that returned the j-th collected mutation: the on_event
\* results of all subscribers come first, then the event-specific ones.
SubscriberOf(j) == ((j - 1) % Len(subs)) + 1

\* The replacement of the k-th collected mutation is in the canonical
\* messages/state or in the merged mutation.
Visible(k) ==
    LET mutation == last.collected[k]
        merged == Unwrap(last.ret)
    IN \/ k \in last.applied
       \/ IsSome(mutation.messages) /\ (messages = Unwrap(mutation.messages)
                                        \/ merged.messages = mutation.messages)
       \/ IsSome(mutation.state) /\ (state = Unwrap(mutation.state)
                                     \/ merged.state = mutation.state)

\* C6 as stated: once a subscriber has returned stop_propagation=true for an
\* event, no replacement proposed for that event by a subscriber registered
\* after it is applied or reported, whichever hooks the two came from.
C6_StopBlocksLaterSubscribers ==
    MergedEvent =>
        \A j, k \in 1..Len(last.collected) :
            (/\ last.collected[j].stop_propagation
             /\ SubscriberOf(j) < SubscriberOf(k)
             /\ HasReplacement(last.collected[k])) => ~Visible(k)

\* C6 as amended: once a collected mutation has stop_propagation=true, no
\* replacement of a mutation collected after it (on_event results in
\* registration order, then event-specific results in registration order)
\* is applied or reported.
C6_StopBlocksLaterMutations ==
    MergedEvent =>
        \A j, k \in 1..Len(last.collected) :
            (/\ last.collected[j].stop_propagation
             /\ j < k
             /\ HasReplacement(last.collected[k])) => ~Visible(k)

\* C6 witness: a replacement was collected after a stop-flagged mutation.
C6_Witness ==
    /\ MergedEvent
    /\ \E j, k \in 1..Len(last.collected) :
         /\ last.collected[j].stop_propagation
         /\ j < k
         /\ HasReplacement(last.collected[k])
         /\ Unwrap(last.ret) = last.collected[j]

(***************************************************************************)
(* C7, checked under SpecSse.                                              *)
(***************************************************************************)
\* C7: once every byte of a well-formed body has arrived, however it was
\* cut into chunks, the decoder has emitted the frames it emits for the
\* whole body fed as a single chunk.
C7_ChunkBoundaryInvariance ==
    (sseRest = <<>> /\ SseErr("HttpTransport") \notin Range(sseOut)) => sseOut = WholeFrames

(***************************************************************************)
(* Default reconstruction, checked under Spec.  In an action formula the   *)
(* unprimed variables are the handler before the event and last' tells     *)
(* what the step did.                                                      *)
(***************************************************************************)
\* The step handles an event of the given type and reaches its default rule.
Defaults(type) ==
    /\ nEvents' = nEvents + 1
    /\ last'.step = "event"
    /\ last'.ev.type = type
    /\ IsSome(last'.postDefault)

\* The parent id of the event is the id of the last canonical message.
ParentIsLast(ms, e) == ms # <<>> /\ Some(Last(ms).id) = e.parent_message_id

\* C8: a ToolCallStart whose parent id is not the id of the last canonical
\* message (none declared and empty list included) makes default
\* reconstruction append a new assistant message with the declared parent
\* id, or with a fresh id when none is declared.
C8_ToolCallStartNewMessage ==
    [][(Defaults("ToolCallStart") /\ ~ParentIsLast(messages, last'.ev)) =>
          LET post == Unwrap(last'.postDefault).messages
              parent == last'.ev.parent_message_id
          IN /\ Len(post) = Len(messages) + 1
             /\ Front(post) = messages
             /\ Last(post).role = "assistant"
             /\ IF IsSome(parent) THEN Last(post).id = Unwrap(parent)
                ELSE Last(post).id \notin MessageIdsOf(messages)]_vars

\* The message m with one more tool call, that of the event e.
WithToolCall(m, e) ==
    [m EXCEPT !.tool_calls =
        Some((IF IsSome(@) THEN Unwrap(@) ELSE <<>>)
             \o <<[id |-> e.tool_call_id, call_type |-> "function",
                   name |-> e.tool_call_name, arguments |-> ""]>>)]

PatchFails(st, delta) == parse_patch(delta) /\ ~apply_ops(to_value(st), delta)[1]

\* The step handles a StateDelta event whose patch fails on the canonical state.
FailingStateDelta ==
    /\ nEvents' = nEvents + 1
    /\ last'.step = "event"
    /\ last'.ev.type = "StateDelta"
    /\ PatchFails(state, last'.ev.delta)

\* C10 as stated: a StateDelta whose patch has a failing operation makes
\* handle_event return an Execution error and leaves the canonical state as
\* it was.
C10_FailingPatchIsExecutionError ==
    [][FailingStateDelta =>
          /\ last'.failedIn = "handle_event"
          /\ outcome'.kind = "err"
          /\ outcome'.error.kind = "Execution"
          /\ state' = state]_vars

\* C10 as amended: a StateDelta whose patch has a failing operation makes
\* handle_event return an error and leaves the canonical state (and the
\* message list) as it was; the error is an Execution error unless the
\* on_event hook of a subscriber failed first, and then it is that hook's.
C10_FailingPatchIsAtomic ==
    [][FailingStateDelta =>
          /\ last'.failedIn = "handle_event"
          /\ outcome'.kind = "err"
          /\ state' = state
          /\ messages' = messages
          /\ IF \E i \in SubIndices : ReturnOf(subs[i], "on_event").err
             THEN /\ outcome'.error.kind = "Subscriber"
                  /\ outcome'.error.hook = "on_event"
             ELSE outcome'.error = ExecutionError]_vars

\* C10 witness: handle_event has returned an Execution error for a patch
\* whose second operation failed after its first one had succeeded.
C10_Witness ==
    /\ last.step = "event"
    /\ last.ev.type = "StateDelta"
    /\ Len(last.ev.delta) = 2
    /\ outcome.error = ExecutionError
    /\ state = DefaultState
    /\ apply_op(to_value(state), last.ev.delta[1])[1]


(***************************************************************************)
(* A run whose stream is one text message: TextMessageStart, content       *)
(* deltas, TextMessageEnd, all for the same message id, with subscribers   *)
(* whose hooks all return the default mutation.                            *)
(***************************************************************************)
QuietSubscriber == Subscriber(RetDefault, RetDefault, {})
QuietLists == {[i \in 1..n |-> QuietSubscriber] : n \in 0..MaxSubs}

TextIds == {"m2", "m3"}

\* The items that can follow the delivered ones in the script.
TextItems(d) ==
    IF d = <<>> THEN {[type |-> "TextMessageStart", message_id |-> m] : m \in TextIds}
    ELSE IF Last(d).type = "TextMessageEnd" THEN {}
    ELSE {[type |-> "TextMessageEnd", message_id |-> d[1].message_id]}
         \cup (IF Len(d) - 1 < MaxDeltas
               THEN {[type |-> "TextMessageContent", message_id |-> d[1].message_id,
                      delta |-> x] : x \in Deltas}
               ELSE {})

InitText ==
    /\ phase = "Idle"
    /\ params \in ParamChoices
    /\ subs \in QuietLists
    /\ messages = <<>>
    /\ state = DefaultState
    /\ result = JsonNull
    /\ outcome = NoOutcome
    /\ nEvents = 0
    /\ last = NoStep
    /\ newMsgLog = <<>>
    /\ delivered = <<>>
    /\ SseIdle
    /\ ErrIdle
    /\ other = NoRun

\* The stream yields the next item of the script.
TextItem(e) ==
    /\ OkItem(e)
    /\ delivered' = Append(delivered, e)

NextText ==
    \/ StartRun
    \/ \E e \in TextItems(delivered) : TextItem(e)
    \/ StreamEnd

SpecText == InitText /\ [][NextText]_vars

\* The concatenation, in arrival order, of the deltas of the content items.
RECURSIVE ConcatDeltas(_)
ConcatDeltas(items) ==
    IF items = <<>> THEN ""
    ELSE (IF Head(items).type = "TextMessageContent" THEN Head(items).delta ELSE "")
         \o ConcatDeltas(Tail(items))

\* C11: when a run without mutating subscribers has delivered
\* TextMessageStart for an id m not in the input, deltas d1..dn for m and
\* TextMessageEnd for m, and has returned successfully, new_messages holds
\* exactly one message with id m, an assistant message whose content is
\* d1..dn concatenated in arrival order.
C11_TextMessageAssembled ==
    (outcome.kind = "ok" /\ delivered # <<>> /\ Last(delivered).type = "TextMessageEnd") =>
        LET m == delivered[1].message_id
            hits == SelectSeq(outcome.new_messages, LAMBDA x : x.id = m)
        IN /\ Len(hits) = 1
           /\ hits[1].role = "assistant"
           /\ hits[1].content = Some(ConcatDeltas(delivered))
           /\ hits[1].tool_calls = None

\* C11 witness: a run with a subscriber and a non-empty input returned the
\* message assembled from the deltas "a" then "b".
C11_Witness ==
    /\ outcome.kind = "ok"
    /\ Len(delivered) = 4
    /\ delivered[2].delta = "a"
    /\ delivered[3].delta = "b"
    /\ Last(delivered).type = "TextMessageEnd"
    /\ subs # <<>>
    /\ params.messages # <<>>
    /\ Len(outcome.new_messages) = 1
    /\ outcome.new_messages[1].content = Some("ab")


(***************************************************************************)
(* The merge step of handle_event, checked under Spec.                     *)
(***************************************************************************)
\* The collected mutations up to and including the first stop-flagged one.
MergePrefix ==
    LET stops == {j \in 1..Len(last.collected) : last.collected[j].stop_propagation}
    IN SubSeq(last.collected, 1, IF stops = {} THEN Len(last.collected) ELSE Min(stops))

\* The value of the last Some among the options, and otherwise the default.
RECURSIVE LastSome(_, _)
LastSome(options, default) ==
    IF options = <<>> THEN default
    ELSE IF IsSome(Last(options)) THEN Unwrap(Last(options))
    ELSE LastSome(Front(options), default)

\* C12: after the merge step of an event the canonical messages (state) are
\* the last message (state) replacement, in collection order, among the
\* mutations up to and including the first stop-flagged one, and the value
\* default reconstruction left when there is none.
C12_MergeAppliesLastReplacement ==
    MergedEvent =>
        LET post == Unwrap(last.postDefault)
            merged == Unwrap(last.merged)
        IN /\ merged.messages
                = LastSome([j \in 1..Len(MergePrefix) |-> MergePrefix[j].messages],
                           post.messages)
           /\ merged.state
                = LastSome([j \in 1..Len(MergePrefix) |-> MergePrefix[j].state], post.state)
           /\ messages = merged.messages
           /\ state = merged.state

\* C12 witness: a message replacement and then the state replacement of a
\* stop-flagged mutation were merged, and the replacement of a mutation
\* collected after the stop-flagged one was left out.
C12_Witness ==
    /\ MergedEvent
    /\ Len(MergePrefix) < Len(last.collected)
    /\ HasReplacement(Last(last.collected))
    /\ \E j, k \in 1..Len(MergePrefix) :
         /\ j < k
         /\ IsSome(MergePrefix[j].messages)
         /\ IsSome(MergePrefix[k].state)
         /\ messages = Unwrap(MergePrefix[j].messages)
         /\ state = Unwrap(MergePrefix[k].state)
         /\ messages # Unwrap(last.postDefault).messages
         /\ state # Unwrap(last.postDefault).state


\* C13: the mutation handle_event returns has its messages (state) field
\* set, to the value finally applied, whenever default reconstruction
\* changed the canonical messages (state) or a merged mutation, one merged
\* before a stop-flagged one included, replaced them.
C13_MergedMutationRecordsReplacements ==
    [][(nEvents' = nEvents + 1 /\ last'.step = "event" /\ IsSome(last'.ret)) =>
          LET ret == Unwrap(last'.ret)
              merged == Unwrap(last'.merged)
              post == Unwrap(last'.postDefault)
              prefix == MergePrefix'
          IN /\ (\/ post.messages # messages
                 \/ \E j \in 1..Len(prefix) : IsSome(prefix[j].messages))
                    => ret.messages = Some(merged.messages)
             /\ (\/ post.state # state
                 \/ \E j \in 1..Len(prefix) : IsSome(prefix[j].state))
                    => ret.state = Some(merged.state)]_vars


\* The positions in calls of the invocations of the hook on subscriber i.
CallsOf(calls, hook, i) == {k \in 1..Len(calls) : calls[k].hook = hook /\ calls[k].sub = i}

\* C14: once an event has been handled and its merged mutation applied,
\* every subscriber has received exactly one on_messages_changed if the
\* event changed the canonical message list and exactly one
\* on_state_changed if it changed the canonical state, never more than one
\* of either, and no on_messages_changed after an on_state_changed.
C14_ChangeNotifications ==
    [][(nEvents' = nEvents + 1 /\ last'.step = "event" /\ IsSome(last'.ret)
        /\ last'.failedIn = "") =>
          LET calls == last'.calls
          IN /\ \A i \in SubIndices :
                  /\ Cardinality(CallsOf(calls, "on_messages_changed", i)) <= 1
                  /\ Cardinality(CallsOf(calls, "on_state_changed", i)) <= 1
                  /\ messages' # messages => CallsOf(calls, "on_messages_changed", i) # {}
                  /\ state' # state => CallsOf(calls, "on_state_changed", i) # {}
             /\ \A k, l \in 1..Len(calls) :
                  (calls[k].hook = "on_state_changed" /\ calls[l].hook = "on_messages_changed")
                      => l < k]_vars


\* C15: no on_new_message invocation of the run names a message whose id
\* was in the initial input message list.
C15_NoNewMessageForInputIds ==
    /\ \A k \in 1..Len(newMsgLog) : newMsgLog[k][2] \notin MessageIdsOf(params.messages)
    /\ \A k \in 1..Len(last.calls) :
         last.calls[k].hook = "on_new_message"
             => last.calls[k].id \notin MessageIdsOf(params.messages)

\* C15 witness: apply_mutation has run its message part, for subscribers,
\* on a merged message list that holds a message of the initial input.
C15_Witness ==
    /\ MergedEvent
    /\ subs # <<>>
    /\ IsSome(Unwrap(last.ret).messages)
    /\ MessageIdsOf(Unwrap(Unwrap(last.ret).messages)) \cap MessageIdsOf(params.messages) # {}
    /\ \A i \in SubIndices : Invoked("on_messages_changed", i)


(***************************************************************************)
(* The result of a successful run, checked under Spec.                     *)
(***************************************************************************)
\* The messages of ms, in order, whose id is not in ids.
RECURSIVE WithoutIds(_, _)
WithoutIds(ms, ids) ==
    IF ms = <<>> THEN <<>>
    ELSE (IF Head(ms).id \in ids THEN <<>> ELSE <<Head(ms)>>) \o WithoutIds(Tail(ms), ids)

\* C16: on successful completion new_messages is the subsequence, in
\* canonical order, of the final canonical message list made of the
\* messages whose id is not an id of the initial input, and new_state is
\* the final canonical state.
C16_ResultIsDiffAndFinalState ==
    outcome.kind = "ok" =>
        /\ outcome.new_messages = WithoutIds(messages, MessageIdsOf(params.messages))
        /\ outcome.new_state = state

\* C16 witness: a run whose input held a message returned a new message
\* and a state that differs from the input state.
C16_Witness ==
    /\ outcome.kind = "ok"
    /\ params.messages # <<>>
    /\ outcome.new_messages # <<>>
    /\ Len(outcome.new_messages) < Len(messages)
    /\ outcome.new_state # params.state


(***************************************************************************)
(* A run whose stream is made of RunStarted and RunFinished events, which  *)
(* may carry a result; the items delivered are recorded.                   *)
(***************************************************************************)
FinishItems ==
    {[type |-> "RunFinished", result |-> r] : r \in {None, Some("r1"), Some("r2")}}
    \cup {[type |-> "RunStarted"]}

InitFinish ==
    /\ phase = "Idle"
    /\ params \in ParamChoices
    /\ subs \in QuietLists \cup {<<s>> : s \in SubscriberChoices}
    /\ messages = <<>>
    /\ state = DefaultState
    /\ result = JsonNull
    /\ outcome = NoOutcome
    /\ nEvents = 0
    /\ last = NoStep
    /\ newMsgLog = <<>>
    /\ delivered = <<>>
    /\ SseIdle
    /\ ErrIdle
    /\ other = NoRun

\* The stream yields a run event.
FinishItem(e) ==
    /\ Len(delivered) < MaxItems
    /\ OkItem(e)
    /\ delivered' = Append(delivered, e)

NextFinish ==
    \/ StartRun
    \/ \E e \in FinishItems : FinishItem(e)
    \/ StreamEnd

SpecFinish == InitFinish /\ [][NextFinish]_vars

\* The payload of the last RunFinished among the items, and JSON null when
\* it carries none or when there is no RunFinished.
RECURSIVE LastResult(_)
LastResult(items) ==
    IF items = <<>> THEN JsonNull
    ELSE IF Last(items).type = "RunFinished"
         THEN (IF IsSome(Last(items).result) THEN Unwrap(Last(items).result) ELSE JsonNull)
         ELSE LastResult(Front(items))

\* C17: the result of a successful run is the payload of the last
\* RunFinished event handled, and JSON null when that event carries no
\* result or when no RunFinished event was received.
C17_ResultIsLastRunFinished ==
    outcome.kind = "ok" => outcome.result = LastResult(delivered)

\* C17 witness: a run that handled RunFinished with result r1, then
\* RunFinished with result r2, then another event, returned r2.
C17_Witness ==
    /\ outcome.kind = "ok"
    /\ Len(delivered) = 3
    /\ delivered[1] = [type |-> "RunFinished", result |-> Some("r1")]
    /\ delivered[2] = [type |-> "RunFinished", result |-> Some("r2")]
    /\ delivered[3].type = "RunStarted"
    /\ subs # <<>>
    /\ outcome.result = "r2"


\* C18: no two messages of the canonical message list carry the same id
\* (the initial lists of the exploration have unique ids).
C18_UniqueMessageIds ==
    \A i, j \in 1..Len(messages) : messages[i].id = messages[j].id => i = j


(***************************************************************************)
(* A run whose stream mixes the events that only notify with a few that    *)
(* build messages, tool calls and state, for subscribers that propose no   *)
(* mutation (some of them fail).                                           *)
(***************************************************************************)
PassiveTypes ==
    {"TextMessageEnd", "TextMessageChunk", "ThinkingTextMessageStart",
     "ThinkingTextMessageContent", "ThinkingTextMessageEnd", "ThinkingStart", "ThinkingEnd",
     "ToolCallEnd", "ToolCallChunk", "ToolCallResult", "MessagesSnapshot", "Raw", "Custom",
     "RunStarted", "RunError", "StepStarted", "StepFinished"}

PassiveEvents == {[type |-> t] : t \in PassiveTypes}

SetupEvents ==
    {[type |-> "TextMessageStart", message_id |-> "m2"],
     [type |-> "ToolCallStart", tool_call_id |-> "t1", tool_call_name |-> "f",
      parent_message_id |-> Some("m2")],
     [type |-> "StateSnapshot", snapshot |-> [counter |-> 7]]}

\* The subscribers of the exploration that never return a replacement.
NonMutating ==
    {s \in SubscriberChoices :
        \A r \in {s.any, s.spec} : ~r.messages /\ ~r.state /\ ~r.stop}

InitPassive ==
    /\ phase = "Idle"
    /\ params \in ParamChoices
    /\ subs \in QuietLists \cup {<<s>> : s \in NonMutating}
    /\ messages = <<>>
    /\ state = DefaultState
    /\ result = JsonNull
    /\ outcome = NoOutcome
    /\ nEvents = 0
    /\ last = NoStep
    /\ newMsgLog = <<>>
    /\ delivered = <<>>
    /\ SseIdle
    /\ ErrIdle
    /\ other = NoRun

\* The stream yields one of these events.
PassiveItem(e) ==
    /\ nEvents < MaxItems
    /\ OkItem(e)
    /\ UNCHANGED delivered

NextPassive ==
    \/ StartRun
    \/ \E e \in PassiveEvents \cup SetupEvents : PassiveItem(e)
    \/ StreamEnd

SpecPassive == InitPassive /\ [][NextPassive]_vars

\* C19: with subscribers that propose no mutation, handling an event of a
\* kind that only notifies leaves the canonical message list and state as
\* they were, and the merged mutation, when handle_event returns one, holds
\* no replacement.
C19_PassiveEventsChangeNothing ==
    [][(nEvents' = nEvents + 1 /\ last'.step = "event" /\ last'.ev.type \in PassiveTypes) =>
          /\ messages' = messages
          /\ state' = state
          /\ IsSome(last'.postDefault) => Unwrap(last'.postDefault) = Handler(messages, state, result)
          /\ IsSome(last'.ret) => Unwrap(last'.ret) = DefaultMutation
          /\ IsSome(last'.ret) \/ outcome'.error.kind = "Subscriber"]_vars

\* C19 witness: ToolCallEnd was handled for two subscribers, on a list whose
\* last message holds a tool call, and handle_event returned the empty
\* mutation.
C19_Witness ==
    /\ last.step = "event"
    /\ last.ev.type = "ToolCallEnd"
    /\ last.ret = Some(DefaultMutation)
    /\ Len(subs) = 2
    /\ Len(last.calls) = 4
    /\ messages # <<>>
    /\ IsSome(Last(messages).tool_calls)
    /\ Unwrap(Last(messages).tool_calls) # <<>>


(***************************************************************************)
(* A run with subscribers whose hooks all return the default mutation,     *)
(* over any stream of the events of the exploration; the items delivered   *)
(* are recorded, and the same stream is replayed without subscribers.      *)
(***************************************************************************)
InitQuiet ==
    /\ phase = "Idle"
    /\ params \in ParamChoices
    /\ subs \in QuietLists
    /\ messages = <<>>
    /\ state = DefaultState
    /\ result = JsonNull
    /\ outcome = NoOutcome
    /\ nEvents = 0
    /\ last = NoStep
    /\ newMsgLog = <<>>
    /\ delivered = <<>>
    /\ SseIdle
    /\ ErrIdle
    /\ other = NoRun

\* The stream yields an Ok item.
QuietItem(e) ==
    /\ nEvents < MaxEvents
    /\ OkItem(e)
    /\ delivered' = Append(delivered, e)

NextQuiet ==
    \/ StartRun
    \/ \E e \in Events : QuietItem(e)
    \/ \E e \in StreamErrors : StreamError(e)
    \/ StreamEnd

SpecQuiet == InitQuiet /\ [][NextQuiet]_vars

\* run_agent's loop over the items from the k-th on, for a handler h without
\* subscribers: the handler after the loop and the error that ended it.
RECURSIVE LoopWithoutSubscribers(_, _, _)
LoopWithoutSubscribers(h, items, k) ==
    IF k > Len(items) THEN [h |-> h, err |-> None]
    ELSE LET hd == handle_event(h, items[k], <<>>, k)
         IN IF IsSome(hd.err) THEN [h |-> hd.h, err |-> hd.err]
            ELSE LET ap == apply_mutation(hd.h, Unwrap(hd.ret), <<>>)
                 IN IF IsSome(ap.err) THEN [h |-> ap.h, err |-> ap.err]
                    ELSE LoopWithoutSubscribers(ap.h, items, k + 1)

\* What run_agent returns without subscribers for the input p and a stream
\* that yields the items and then ends (random message ids drawn alike).
OutcomeWithoutSubscribers(p, items) ==
    LET r == LoopWithoutSubscribers(Handler(p.messages, p.state, JsonNull), items, 1)
    IN IF IsSome(r.err) THEN Failure(Unwrap(r.err))
       ELSE Success(r.h.result, CollectNewMessages(r.h.messages, p.messages), r.h.state)

\* C20: a run with any number of subscribers whose hooks all return the
\* default mutation returns what the same run returns with no subscriber:
\* the same result, new_messages and new_state, or the same error.
C20_QuietSubscribersChangeNothing ==
    (phase = "Returned" /\ last.step \in {"event", "end"}) =>
        outcome = OutcomeWithoutSubscribers(params, delivered)

\* C20 witness: a run with two such subscribers returned a new message and
\* a new state.
C20_Witness ==
    /\ outcome.kind = "ok"
    /\ Len(subs) = 2
    /\ Len(delivered) = 2
    /\ outcome.new_messages # <<>>
    /\ outcome.new_state # params.state
    /\ outcome = OutcomeWithoutSubscribers(params, delivered)

(***************************************************************************)
(* Tool-call argument streams: the input ends with the assistant message   *)
(* m1, the stream yields ToolCallStart for t1 with parent m1 and then up   *)
(* to MaxDeltas ToolCallArgs items, and no subscriber proposes a mutation. *)
(***************************************************************************)
ToolParamChoices ==
    {[messages |-> ms, state |-> DefaultState] :
        ms \in {<<AssistantMessage("m1", Some("hi"), None)>>,
                <<AssistantMessage("m1", None, Some(<<>>))>>,
                <<PlainMessage("user", "m0", "hi"),
                  AssistantMessage("m1", Some("hi"), Some(<<ToolCall("t0", "g", "z")>>))>>}}

\* The items that can follow the delivered ones in the script.
ToolItems(d) ==
    IF d = <<>>
    THEN {[type |-> "ToolCallStart", tool_call_id |-> "t1", tool_call_name |-> "f",
           parent_message_id |-> Some("m1")]}
    ELSE IF Len(d) - 1 < MaxDeltas
         THEN {[type |-> "ToolCallArgs", tool_call_id |-> "t1", delta |-> x] : x \in Deltas}
         ELSE {}

InitTool ==
    /\ phase = "Idle"
    /\ params \in ToolParamChoices
    /\ subs \in QuietLists
    /\ messages = <<>>
    /\ state = DefaultState
    /\ result = JsonNull
    /\ outcome = NoOutcome
    /\ nEvents = 0
    /\ last = NoStep
    /\ newMsgLog = <<>>
    /\ delivered = <<>>
    /\ SseIdle
    /\ ErrIdle
    /\ other = NoRun

\* The stream yields the next item of the script.
ToolItem(e) ==
    /\ OkItem(e)
    /\ delivered' = Append(delivered, e)

NextTool ==
    \/ StartRun
    \/ \E e \in ToolItems(delivered) : ToolItem(e)
    \/ StreamEnd

SpecTool == InitTool /\ [][NextTool]_vars

\* The concatenation, in arrival order, of the deltas of the argument items.
RECURSIVE ConcatArgs(_)
ConcatArgs(items) ==
    IF items = <<>> THEN ""
    ELSE (IF Head(items).type = "ToolCallArgs" THEN Head(items).delta ELSE "")
         \o ConcatArgs(Tail(items))

\* The input messages with the tool call tc appended to the tool calls of
\* the last message, and nothing else different.
WithLastToolCall(ms, tc) ==
    LET m == Last(ms)
        old == IF m.tool_calls = None THEN <<>> ELSE Unwrap(m.tool_calls)
    IN ReplaceLast(ms, [m EXCEPT !.tool_calls = Some(Append(old, tc))])

\* C21: after ToolCallStart for t1 whose parent is the last (assistant)
\* message, followed only by ToolCallArgs deltas a1..ak, with no mutating
\* subscriber, the arguments of t1 are a1..ak concatenated in arrival order
\* and every other tool call and every message content is as in the input.
C21_ToolCallArgsConcatenated ==
    (phase = "Running" /\ delivered # <<>>) =>
        messages = WithLastToolCall(params.messages,
                                    ToolCall("t1", "f", ConcatArgs(delivered)))

\* C21 witness: two different deltas were applied to t1 next to an older
\* tool call of the same message.
C21_Witness ==
    /\ phase = "Running"
    /\ Len(delivered) = 3
    /\ delivered[2].delta # delivered[3].delta
    /\ Len(params.messages) = 2
    /\ Len(Unwrap(Last(messages).tool_calls)) = 2
    /\ Last(Unwrap(Last(messages).tool_calls)).arguments
           = delivered[2].delta \o delivered[3].delta

(***************************************************************************)
(* What the hooks of one event observe and the order they run in, checked  *)
(* under Spec.                                                             *)
(***************************************************************************)
\* The step is one turn of run_agent's loop on an Ok item.
HandlesEvent == nEvents' = nEvents + 1 /\ last'.step = "event"

\* C22: for each event, every on_event invocation comes before every
\* invocation of the event-specific hook and observes the canonical messages
\* and state as they were when the event arrived; every invocation of the
\* event-specific hook observes the messages and state that default
\* reconstruction alone makes of them, whatever mutation another subscriber
\* returned for the same event.
C22_HooksObservePreAndPostDefault ==
    [][HandlesEvent =>
         LET d == DefaultRule(Handler(messages, state, result), last'.ev, nEvents + 1)
             calls == last'.calls
         IN \A k \in 1..Len(calls) :
              /\ calls[k].hook = "on_event" =>
                   /\ calls[k].messages = messages
                   /\ calls[k].state = state
                   /\ \A j \in 1..Len(calls) : calls[j].hook \in SpecificHooks => k < j
              /\ calls[k].hook \in SpecificHooks =>
                   /\ calls[k].messages = d.h.messages
                   /\ calls[k].state = d.h.state]_vars

\* C22 witness: the first subscriber's on_event returned a replacement of
\* the messages, default reconstruction changed the messages, and the
\* second subscriber's event-specific hook observed the post-default
\* messages, not the replacement.
C22_Witness ==
    /\ last.step = "event"
    /\ Len(subs) = 2
    /\ Len(last.calls) >= 4
    /\ last.calls[1].hook = "on_event"
    /\ last.calls[4].hook \in SpecificHooks
    /\ last.calls[4].sub = 2
    /\ IsSome(last.collected[1].messages)
    /\ IsSome(last.postDefault)
    /\ last.calls[4].messages = Unwrap(last.postDefault).messages
    /\ last.calls[4].messages # last.calls[1].messages
    /\ last.calls[4].messages # Unwrap(last.collected[1].messages)

\* The hooks invoked while the event e is handled and its mutation applied.
HooksOfEvent(e) == {"on_event", SpecificHook[e.type]} \cup NotifyHooks

\* The k-th invocation of the step continues the dispatch point of the one
\* before it with the next subscriber in registration order.
ContinuesPoint(calls, k) ==
    /\ k > 1
    /\ calls[k].hook = calls[k - 1].hook
    /\ calls[k].id = calls[k - 1].id
    /\ calls[k].sub = calls[k - 1].sub + 1

\* The k-th invocation of the step opens a dispatch point with the first
\* subscriber, the point before it having visited every subscriber.
OpensPoint(calls, k) ==
    /\ calls[k].sub = 1
    /\ k > 1 => calls[k - 1].sub = Len(subs)

\* C23: the hook invocations of a run form one sequence: the invocations a
\* turn of the loop makes all belong to the event (or stream error, or end
\* of stream) of that turn, so that all of them come before any of the next
\* turn; and within a turn every dispatch point visits the subscribers in
\* registration order, a point starting only when the one before is done.
C23_HooksTotallyOrdered ==
    /\ \A k \in 1..Len(last.calls) :
         ContinuesPoint(last.calls, k) \/ OpensPoint(last.calls, k)
    /\ last.step = "event" =>
         \A k \in 1..Len(last.calls) : last.calls[k].hook \in HooksOfEvent(last.ev)
    /\ last.step = "error" =>
         \A k \in 1..Len(last.calls) : last.calls[k].hook = "on_run_failed"
    /\ last.step = "end" =>
         \A k \in 1..Len(last.calls) : last.calls[k].hook = "on_run_finalized"

\* C23 witness: the second event of a run with two subscribers went through
\* three dispatch points, each visiting subscriber 1 and then subscriber 2.
C23_Witness ==
    /\ last.step = "event"
    /\ nEvents = 2
    /\ Len(subs) = 2
    /\ Len(last.calls) = 6
    /\ \A k \in {1, 3, 5} : last.calls[k].sub = 1 /\ last.calls[k + 1].sub = 2
    /\ last.calls[1].hook = "on_event"
    /\ last.calls[3].hook \in SpecificHooks
    /\ last.calls[5].hook \in NotifyHooks

\* The k-th hook invocation of the last step returned an error.
CallFails(k) == ReturnOf(subs[last.calls[k].sub], last.calls[k].hook).err

\* C24: a hook that fails while an event is handled is the last hook the run
\* invokes: no later subscriber of that dispatch point, no later dispatch
\* point of the event and no later event follows, and run_agent returns a
\* failure, the error of that hook.
C24_HookFailureAbortsRun ==
    /\ [](last.step = "event" =>
            \A k \in 1..Len(last.calls) :
                CallFails(k) =>
                    /\ k = Len(last.calls)
                    /\ phase = "Returned"
                    /\ outcome = Failure(SubscriberError(last.calls[k].sub, last.calls[k].hook)))
    /\ [][phase # "Returned"]_vars

\* C24 witness: the event-specific hook of the first of two subscribers
\* failed on the first event of the stream.
C24_Witness ==
    /\ last.step = "event"
    /\ nEvents = 1
    /\ Len(subs) = 2
    /\ Len(last.calls) = 3
    /\ last.calls[3].hook \in SpecificHooks
    /\ last.calls[3].sub = 1
    /\ CallFails(3)
    /\ outcome.kind = "err"

\* C25: when the on_run_failed hook of a subscriber fails while a stream
\* error is reported, run_agent returns the error of that hook, not the
\* stream error, and on_run_failed is not invoked on any subscriber
\* registered after the failing one.
C25_FailingRunFailedHookWins ==
    last.step = "error" =>
        \A k \in 1..Len(last.calls) :
            CallFails(k) =>
                /\ last.calls[k].hook = "on_run_failed"
                /\ outcome = Failure(SubscriberError(last.calls[k].sub, "on_run_failed"))
                /\ outcome.error # last.error
                /\ \A i \in SubIndices : i > last.calls[k].sub => ~Invoked("on_run_failed", i)

\* C25 witness: a stream error was reported to two subscribers and the
\* on_run_failed hook of the first one failed.
C25_Witness ==
    /\ last.step = "error"
    /\ Len(subs) = 2
    /\ last.calls # <<>>
    /\ CallFails(1)
    /\ last.calls[1].sub = 1
    /\ ~Invoked("on_run_failed", 2)
    /\ outcome.error.kind = "Subscriber"

(***************************************************************************)
(* Successful state patches, checked under Spec.                           *)
(***************************************************************************)
\* The step handles a StateDelta event whose patch decodes and whose
\* operations all succeed on the canonical state.
SucceedingStateDelta ==
    /\ nEvents' = nEvents + 1
    /\ last'.step = "event"
    /\ last'.ev.type = "StateDelta"
    /\ parse_patch(last'.ev.delta)
    /\ apply_ops(to_value(state), last'.ev.delta)[1]

\* The document the operations of the event, applied in order, make of the
\* canonical state.
PatchedState == apply_ops(to_value(state), last'.ev.delta)[2]

\* C30 as stated: a StateDelta whose operations all succeed sets the
\* canonical state to the result of applying them in order to the previous
\* state (replace /counter with 5 on {counter: 0} gives {counter: 5}) and
\* leaves the message list unchanged; the state and messages are the ones
\* default reconstruction leaves.
C30_SuccessfulPatchSetsState ==
    [][SucceedingStateDelta =>
          /\ IsSome(last'.postDefault)
          /\ Unwrap(last'.postDefault).state = PatchedState
          /\ Unwrap(last'.postDefault).messages = messages]_vars

\* C30 as amended: a StateDelta whose operations all succeed sets the state
\* to the result of applying them in order and leaves the messages as they
\* were, provided no on_event hook failed first and the patched document
\* deserializes into the state type; if it does not, handle_event returns a
\* Json error; in both failure cases state and messages stay as they were.
\* When no subscriber returns a replacement the state and messages default
\* reconstruction left are the canonical ones after the event.
C30_SuccessfulTypedPatchSetsState ==
    [][SucceedingStateDelta =>
          IF \E i \in SubIndices : ReturnOf(subs[i], "on_event").err
          THEN /\ outcome'.error.kind = "Subscriber"
               /\ outcome'.error.hook = "on_event"
               /\ state' = state
               /\ messages' = messages
          ELSE IF "counter" \notin DOMAIN PatchedState
          THEN /\ last'.failedIn = "handle_event"
               /\ outcome'.error = JsonError
               /\ state' = state
               /\ messages' = messages
          ELSE /\ IsSome(last'.postDefault)
               /\ Unwrap(last'.postDefault).state = PatchedState
               /\ Unwrap(last'.postDefault).messages = messages
               /\ (state = [counter |-> 0]
                   /\ last'.ev.delta = <<PatchOp("replace", "counter", 5)>>)
                  => Unwrap(last'.postDefault).state = [counter |-> 5]
               /\ (\A j \in 1..Len(last'.collected) : ~HasReplacement(last'.collected[j])
                   /\ last'.failedIn # "handle_event")
                  => (state' = PatchedState /\ messages' = messages)]_vars

\* C30 witness: a patch of two operations, the second of which needs the
\* first, was applied in order to a state that an earlier event had set.
C30_Witness ==
    /\ last.step = "event"
    /\ last.ev.type = "StateDelta"
    /\ Len(last.ev.delta) = 2
    /\ last.failedIn = ""
    /\ nEvents = 2
    /\ Len(subs) >= 1
    /\ IsSome(last.postDefault)
    /\ state = Unwrap(last.postDefault).state
    /\ "note" \in DOMAIN state
    /\ state.note = 2
    /\ state.counter # 0

(***************************************************************************)
(* The classification of errors: some error is handed to is_retryable.     *)
(***************************************************************************)
InitClassify ==
    /\ RunIdle
    /\ SseIdle
    /\ clientError \in ClientErrors
    /\ retryable = None

Classify ==
    /\ retryable = None
    /\ retryable' = Some(is_retryable(clientError))
    /\ UNCHANGED <<clientError, runVars, sseVars>>

NextClassify == Classify

SpecClassify == InitClassify /\ [][NextClassify]_vars

\* C29: is_retryable is true for an HttpStatus error exactly when the status
\* is in 500..599 or is 429 (true for 500 and 429, false for 400 and 404),
\* and false for every Config, SseParse, Json, Subscriber and Execution
\* error.
C29_RetryableClassification ==
    IsSome(retryable) =>
        /\ clientError.kind = "HttpStatus" =>
             /\ Unwrap(retryable) = (clientError.status \in 500..599 \/ clientError.status = 429)
             /\ clientError.status \in {500, 429} => Unwrap(retryable)
             /\ clientError.status \in {400, 404} => ~Unwrap(retryable)
        /\ clientError.kind \in {"Config", "SseParse", "Json", "Subscriber", "Execution"} =>
             ~Unwrap(retryable)

\* C29 witness: an HttpStatus error with status 429 was classified retryable.
C29_Witness ==
    /\ clientError.kind = "HttpStatus"
    /\ clientError.status = 429
    /\ retryable = Some(TRUE)

(***************************************************************************)
(* The decoder on one chunk: the body arrives in chunks as in SpecSse and  *)
(* sseLast records what the decoder did with the last one.  A segment is a *)
(* piece between the separators the split finds from the left.             *)
(***************************************************************************)
DecodeChunk(k) ==
    /\ Feed(k)
    /\ \E text \in {from_utf8(SubSeq(sseRest, 1, k))} :
          sseLast' = Decoded(text[1],
                             IF text[1] THEN sseBuffer \o text[2] ELSE sseBuffer,
                             SubSeq(sseOut', Len(sseOut) + 1, Len(sseOut')))

NextDecode == \E k \in 1..Len(sseRest) : DecodeChunk(k)

SpecDecode == InitSse /\ [][NextDecode]_vars

NonEmptyOf(pieces) == SelectSeq(pieces, LAMBDA piece : piece # <<>>)
Text_dataX == <<"d", "a", "t", "a", ":", " ", "X">>
Text_dataAB == <<"d", "a", "t", "a", ":", " ", "a", LF, "d", "a", "t", "a", ":", " ", "b">>

\* C26: when the retained text plus the new chunk ends with the separator,
\* the decoder emits one frame for every non-empty segment, in order, and
\* nothing else, and the retained buffer becomes empty; "data: X\n\n"
\* gives exactly one frame, with payload "X".
C26_TerminatedBufferEmitsAll ==
    (sseLast.fed /\ ends_with(sseLast.buffered, Separator)) =>
        LET segments == NonEmptyOf(split(sseLast.buffered, Separator))
        IN /\ sseBuffer = <<>>
           /\ Len(sseLast.emitted) = Len(segments)
           /\ \A j \in 1..Len(segments) : sseLast.emitted[j] = parse_sse_event(segments[j])
           /\ (sseLast.buffered = Text_dataX \o Separator) =>
                  sseLast.emitted = <<SseEvent(None, None, <<"X">>)>>

\* C26 witness: two terminated segments were split at once; two frames
\* came out in the order of the segments and nothing is retained.
C26_Witness ==
    /\ sseLast.fed
    /\ sseLast.buffered = Text_dataX \o Separator \o Text_dataAB \o Separator
    /\ sseBuffer = <<>>
    /\ Len(sseLast.emitted) = 2
    /\ sseLast.emitted[1].data = <<"X">>
    /\ sseLast.emitted[2].data = <<"a", LF, "b">>

\* A text holds the separator somewhere.
HasSeparator(text) ==
    \E i \in 1..(Len(text) - 1) : SubSeq(text, i, i + 1) = Separator

\* C27: when the retained text plus the new chunk does not end with the
\* separator, the new buffer is the last segment, unchanged: the end of the
\* buffer from behind a separator on, with no separator in it (the whole
\* buffer when it holds none); and the decoder emits one frame for every
\* non-empty segment before it, in order, none when there is no separator.
C27_UnterminatedTailRetained ==
    (sseLast.fed /\ ~ends_with(sseLast.buffered, Separator)) =>
        LET pieces == split(sseLast.buffered, Separator)
            segments == NonEmptyOf(Front(pieces))
        IN /\ sseBuffer = Last(pieces)
           /\ ~HasSeparator(sseBuffer)
           /\ IF HasSeparator(sseLast.buffered)
              THEN ends_with(sseLast.buffered, Separator \o sseBuffer)
              ELSE sseBuffer = sseLast.buffered /\ sseLast.emitted = <<>>
           /\ Len(sseLast.emitted) = Len(segments)
           /\ \A j \in 1..Len(segments) : sseLast.emitted[j] = parse_sse_event(segments[j])

\* C27 witness: a terminated segment and an unterminated one were split at
\* once; one frame came out and the unterminated text is retained.
C27_Witness ==
    /\ sseLast.fed
    /\ sseLast.buffered = Text_dataX \o Separator \o Text_dataX
    /\ sseBuffer = Text_dataX
    /\ sseLast.emitted = <<SseEvent(None, None, <<"X">>)>>

\* The payload of a segment: its lines that start with "data:", in order,
\* without that prefix and without one space after it, joined by newlines.
PayloadOf(segment) ==
    LET ls == SelectSeq(split(segment, <<LF>>), LAMBDA line : starts_with(line, DataPrefix))
        content(line) == LET value == SubSeq(line, Len(DataPrefix) + 1, Len(line))
                         IN IF value # <<>> /\ Head(value) = " " THEN Tail(value) ELSE value
    IN join([i \in 1..Len(ls) |-> content(ls[i])], <<LF>>)

\* C28: the payload of every emitted frame is made of the data lines of its
\* segment, in order, each without at most one leading space, joined with
\* one newline; "data: a\ndata: b" gives "a\nb".
C28_PayloadJoinsDataLines ==
    sseLast.fed =>
        LET pieces == split(sseLast.buffered, Separator)
            segments == NonEmptyOf(IF ends_with(sseLast.buffered, Separator) THEN pieces
                                   ELSE Front(pieces))
        IN /\ Len(sseLast.emitted) = Len(segments)
           /\ \A j \in 1..Len(segments) :
                /\ sseLast.emitted[j].ok
                /\ sseLast.emitted[j].data = PayloadOf(segments[j])
                /\ (segments[j] = Text_dataAB) => sseLast.emitted[j].data = <<"a", LF, "b">>

\* C28 witness: a segment of two data lines and a data line with two
\* leading spaces were split at once.
C28_Witness ==
    /\ sseLast.fed
    /\ Len(sseLast.emitted) >= 2
    /\ sseLast.emitted[1].data = <<"a", LF, "b">>
    /\ sseLast.emitted[2].data = <<" ", "b">>

(***************************************************************************)
(* The fields of a frame: a body of up to MaxLines lines and the blank     *)
(* line goes through the decoder as one chunk.                             *)
(***************************************************************************)
MaxLines == 3

Line_eventA == <<"e", "v", "e", "n", "t", ":", " ", "a">>
Line_eventB == <<"e", "v", "e", "n", "t", ":", "b", " ">>
Line_id1 == <<"i", "d", ":", "1">>
Line_id2 == <<"i", "d", ":", " ", "2", " ">>
Line_dataX == <<"d", "a", "t", "a", ":", " ", "x">>
Line_retry == <<"r", "e", "t", "r", "y", ":", "5">>

\* The lines of a body: event:, id: and data: lines, a line with another
\* prefix and the empty line.
FieldLines == {Line_eventA, Line_eventB, Line_id1, Line_id2, Line_dataX, Line_retry, <<>>}

FieldBodies ==
    {join(ls, <<LF>>) \o Separator :
        ls \in UNION {[1..n -> FieldLines] : n \in 1..MaxLines}}

InitParse ==
    /\ RunIdle
    /\ ErrIdle
    /\ sseWhole \in FieldBodies
    /\ sseRest = sseWhole
    /\ sseBuffer = <<>>
    /\ sseOut = <<>>
    /\ sseDone = FALSE
    /\ sseLast = NoChunk

\* The whole body arrives as one chunk.
DecodeWhole ==
    /\ sseRest # <<>>
    /\ DecodeChunk(Len(sseRest))

NextParse == DecodeWhole

SpecParse == InitParse /\ [][NextParse]_vars

\* The trimmed value of the last line of the segment that starts with the
\* prefix, if there is one.
LastFieldOf(segment, prefix) ==
    LET ls == SelectSeq(split(segment, <<LF>>), LAMBDA line : starts_with(line, prefix))
    IN IF ls = <<>> THEN None
       ELSE Some(trim(SubSeq(ls[Len(ls)], Len(prefix) + 1, Len(ls[Len(ls)]))))

\* C34: every non-empty segment yields one frame; its event name is the
\* trimmed value of the last event: line of the segment and its id that of
\* the last id: line, absent when the segment has no such line; and a
\* segment without a data: line (only empty lines, event:, id: or other
\* lines) yields a frame with the empty payload.
C34_LastFieldLineWins ==
    sseLast.fed =>
        LET pieces == split(sseLast.buffered, Separator)
            segments == NonEmptyOf(IF ends_with(sseLast.buffered, Separator) THEN pieces
                                   ELSE Front(pieces))
        IN /\ Len(sseLast.emitted) = Len(segments)
           /\ \A j \in 1..Len(segments) :
                /\ sseLast.emitted[j].ok
                /\ sseLast.emitted[j].event = LastFieldOf(segments[j], EventPrefix)
                /\ sseLast.emitted[j].id = LastFieldOf(segments[j], IdPrefix)
                /\ LastFieldOf(segments[j], DataPrefix) = None =>
                        sseLast.emitted[j].data = <<>>

\* C34 witness: the segment "event: a", "event:b ", "retry:5" was decoded
\* into one frame named "b", with no id and the empty payload.
C34_Witness ==
    /\ sseLast.fed
    /\ sseLast.buffered = Line_eventA \o <<LF>> \o Line_eventB \o <<LF>> \o Line_retry
                              \o Separator
    /\ sseLast.emitted = <<SseEvent(Some(<<"b">>), None, <<>>)>>

(***************************************************************************)
(* The decoder after an error and at the end of the byte stream, checked   *)
(* under SpecSse.                                                          *)
(***************************************************************************)
\* C31: a chunk that is not valid UTF-8 makes the decoder emit an SseParse
\* error, and once it has emitted one it emits no further frame, whatever
\* chunks arrive later.
C31_Utf8ErrorIsTerminal ==
    \A i \in 1..Len(sseOut) :
        sseOut[i] = SseErr("SseParse") =>
            \A j \in (i + 1)..Len(sseOut) : ~sseOut[j].ok

(***************************************************************************)
(* Two run_agent calls made with the same params, their loops interleaved. *)
(* The run variables follow the first call and `other` the second one.     *)
(***************************************************************************)
\* run_agent, were it to write its canonical messages and state back to the
\* params.
ParamsWrittenBack(p, h) == [messages |-> h.messages, state |-> h.state]

\* `params: &RunAgentParams`: the params are borrowed and only cloned from;
\* what they are after a step of a run whose handler is h.
BorrowedParams(p, h) == p

TwoRunEvents ==
    {[type |-> "TextMessageStart", message_id |-> "m2"],
     [type |-> "TextMessageContent", message_id |-> "m2", delta |-> "a"],
     [type |-> "StateDelta", delta |-> <<PatchOp("replace", "counter", 5)>>]}

\* No subscriber, or one that replaces the messages from on_event and the
\* state from the event-specific hook.
TwoRunLists ==
    {<<>>,
     <<Subscriber(HookReturn(FALSE, TRUE, FALSE, FALSE), HookReturn(FALSE, FALSE, TRUE, FALSE),
                  {})>>}

InitTwo ==
    /\ phase = "Idle"
    /\ params \in ParamChoices
    /\ subs \in TwoRunLists
    /\ messages = <<>>
    /\ state = DefaultState
    /\ result = JsonNull
    /\ outcome = NoOutcome
    /\ nEvents = 0
    /\ last = NoStep
    /\ newMsgLog = <<>>
    /\ delivered = <<>>
    /\ SseIdle
    /\ ErrIdle
    /\ other \in {OtherRun("Idle", ss, Handler(<<>>, DefaultState, JsonNull), 0, <<>>) :
                    ss \in TwoRunLists}

\* The stream of the first call yields an Ok item.
RunItem(e) ==
    /\ nEvents < MaxEvents
    /\ OkItem(e)
    /\ delivered' = Append(delivered, e)

\* The second call builds its handler from clones of the params.
OtherStart ==
    /\ other.phase = "Idle"
    /\ other' = OtherRun("Running", other.subs,
                         Handler(params.messages, params.state, JsonNull), 0, <<>>)
    /\ UNCHANGED <<phase, params, subs, messages, state, result, outcome, nEvents, last,
                   newMsgLog, delivered, sseVars, errVars>>

\* One turn of the second call's loop on an Ok item.
OtherItem(e) ==
    /\ other.phase = "Running"
    /\ other.nEvents < MaxEvents
    /\ \E hd \in {handle_event(Handler(other.messages, other.state, other.result), e,
                               other.subs, other.nEvents + 1)} :
         \E h \in {IF IsSome(hd.err) THEN hd.h
                   ELSE apply_mutation(hd.h, Unwrap(hd.ret), other.subs).h} :
            /\ other' = OtherRun(IF IsSome(hd.err)
                                    \/ IsSome(apply_mutation(hd.h, Unwrap(hd.ret),
                                                             other.subs).err)
                                 THEN "Returned" ELSE "Running",
                                 other.subs, h, other.nEvents + 1,
                                 Append(other.delivered, e))
            /\ params' = BorrowedParams(params, h)
    /\ UNCHANGED <<phase, subs, messages, state, result, outcome, nEvents, last, newMsgLog,
                   delivered, sseVars, errVars>>

\* The stream of the second call ends.
OtherEnd ==
    /\ other.phase = "Running"
    /\ other' = [other EXCEPT !.phase = "Returned"]
    /\ UNCHANGED <<phase, params, subs, messages, state, result, outcome, nEvents, last,
                   newMsgLog, delivered, sseVars, errVars>>

NextTwo ==
    \/ StartRun
    \/ \E e \in TwoRunEvents : RunItem(e)
    \/ StreamEnd
    \/ OtherStart
    \/ \E e \in TwoRunEvents : OtherItem(e)
    \/ OtherEnd

SpecTwo == InitTwo /\ [][NextTwo]_vars

\* run_agent's loop over the items from the k-th on, alone, for a handler h
\* and the subscribers ss: the handler when the loop ends or fails.
RECURSIVE LoopAlone(_, _, _, _)
LoopAlone(h, ss, items, k) ==
    IF k > Len(items) THEN h
    ELSE LET hd == handle_event(h, items[k], ss, k)
         IN IF IsSome(hd.err) THEN hd.h
            ELSE LET ap == apply_mutation(hd.h, Unwrap(hd.ret), ss)
                 IN IF IsSome(ap.err) THEN ap.h ELSE LoopAlone(ap.h, ss, items, k + 1)

\* The handler of a call made alone with the params p.
HandlerAlone(p, ss, items) == LoopAlone(Handler(p.messages, p.state, JsonNull), ss, items, 1)

\* C32: of two calls made with the same params and interleaved in any
\* order, each has the canonical messages, state and result it would have
\* alone with its own stream and subscribers, and no step of either changes
\* the caller's params.
C32_RunsAreIndependent ==
    /\ [](phase # "Idle" =>
            Handler(messages, state, result) = HandlerAlone(params, subs, delivered))
    /\ [](other.phase \in {"Running", "Returned"} =>
            Handler(other.messages, other.state, other.result)
                = HandlerAlone(params, other.subs, other.delivered))
    /\ [][params' = params]_vars

\* C32 witness: both calls have handled two items, interleaved, and hold
\* different messages and different states, neither the input's.
C32_Witness ==
    /\ phase = "Running"
    /\ other.phase = "Running"
    /\ nEvents = 2
    /\ other.nEvents = 2
    /\ delivered # other.delivered
    /\ messages # other.messages
    /\ state # other.state
    /\ messages # params.messages
    /\ other.state # params.state

\* C33: when the stream ends after events that were all handled without a
\* failure and no on_run_finalized hook fails, the turn that ends the run
\* invokes on_run_finalized once on every subscriber in registration order
\* and nothing else (no on_run_failed), it comes after the turns of the
\* events, and run_agent returns its result right after it.
C33_FinalizedOnceOnStreamEnd ==
    /\ []((last.step = "end" /\ last.failedIn = "") =>
            /\ last.calls = [i \in 1..Len(subs) |->
                               HookCall("on_run_finalized", i, messages, state, "", NoError)]
            /\ phase = "Returned"
            /\ outcome = Success(result, CollectNewMessages(messages, params.messages), state))
    /\ [][last'.step = "end" => (phase = "Running" /\ last.step \in {"run", "event"}
                                   /\ phase' = "Returned")]_vars

\* C33 witness: a run with two subscribers returned its result after two
\* events, the finalize turn having notified both.
C33_Witness ==
    /\ last.step = "end"
    /\ last.failedIn = ""
    /\ outcome.kind = "ok"
    /\ Len(subs) = 2
    /\ nEvents = 2
    /\ Len(last.calls) = 2

(***************************************************************************)
(* The default rules of ToolCallStart and TextMessageContent and the       *)
(* message they touch, checked under Spec.                                 *)
(***************************************************************************)
\* C35: after the default rule of a ToolCallStart, some message of the
\* canonical list holds a tool call with the id of the event.
C35_ToolCallStartNeverDropped ==
    [][Defaults("ToolCallStart") =>
          LET post == Unwrap(last'.postDefault).messages
          IN \E i \in 1..Len(post) :
                /\ IsSome(tool_calls(post[i]))
                /\ \E k \in 1..Len(Unwrap(tool_calls(post[i]))) :
                      Unwrap(tool_calls(post[i]))[k].id = last'.ev.tool_call_id]_vars

\* C36: the default rule of a TextMessageContent with message id m leaves
\* the content of every message with another id as it was.
C36_ContentOnlyForItsMessage ==
    [][Defaults("TextMessageContent") =>
          LET post == Unwrap(last'.postDefault).messages
          IN \A i \in 1..Len(messages) :
                messages[i].id # last'.ev.message_id =>
                    /\ i <= Len(post)
                    /\ post[i].id = messages[i].id
                    /\ post[i].content = messages[i].content]_vars

(***************************************************************************)
(* The start of a run, checked under Spec.                                 *)
(***************************************************************************)
\* C37: when run_agent has built its handler from the input and holds the
\* event stream, before the first event, on_run_initialized has been invoked
\* exactly once on every subscriber.
C37_InitializedOncePerRun ==
    (phase = "Running" /\ last.step = "run") =>
        \A i \in SubIndices :
            Cardinality({k \in 1..Len(last.calls) :
                            /\ last.calls[k].hook = "on_run_initialized"
                            /\ last.calls[k].sub = i}) = 1

(***************************************************************************)
(* The stop flag and the hooks of an event, checked under Spec.            *)
(***************************************************************************)
\* No on_event or event-specific hook invoked in the last step failed.
NoEventHookFailed ==
    \A k \in 1..Len(last.calls) :
        last.calls[k].hook \in ({"on_event"} \cup SpecificHooks) => ~CallFails(k)

\* Every subscriber's on_event and event-specific hook was invoked in the last step.
EveryEventHookInvoked ==
    \A i \in SubIndices :
        /\ Invoked("on_event", i)
        /\ Invoked(SpecificHook[last.ev.type], i)

\* C38 as stated: for every event handled without a hook error, the
\* on_event hook and the event-specific hook of every subscriber are
\* invoked.
C38_EveryEventHookInvoked ==
    (last.step = "event" /\ NoEventHookFailed) => EveryEventHookInvoked

\* C38: for every event handled without a hook error and whose default
\* reconstruction did not fail, the on_event hook and the event-specific
\* hook of every subscriber are invoked, whichever of the returns carry
\* stop_propagation: the flag only ends the merge.
C38_StopOnlyShortCircuitsMerge ==
    (last.step = "event" /\ NoEventHookFailed /\ IsSome(last.postDefault)) =>
        EveryEventHookInvoked

\* C38 witness: the first of two subscribers returned stop_propagation from
\* on_event, which ended the merge there, and both hooks of the second
\* subscriber were invoked all the same.
C38_Witness ==
    /\ MergedEvent
    /\ Len(subs) = 2
    /\ ReturnOf(subs[1], "on_event").stop
    /\ last.collected[1].stop_propagation
    /\ Unwrap(last.ret) = last.collected[1]
    /\ Invoked("on_event", 2)
    /\ Invoked(SpecificHook[last.ev.type], 2)

(***************************************************************************)
(* HttpAgent::run (http.rs) under run_agent: the items of the decoder go   *)
(* through serde_json::from_str and reach the loop of run_agent in the     *)
(* order they were emitted, a chunk being read only when every item of the *)
(* chunks before it has been taken.  sseOut[nEvents + 1] is the next item. *)
(***************************************************************************)
Json_ThinkingEnd ==
    <<"{", "\"", "t", "y", "p", "e", "\"", ":", "\"", "T", "H", "I", "N", "K", "I", "N", "G",
      "_", "E", "N", "D", "\"", "}">>

\* `serde_json::from_str::<Event>(&event.data)` on the payloads of the
\* exploration, of which the only one that is the JSON text of an event is
\* that of a THINKING_END event: <<whether it is Ok, the event>>.
event_from_str(data) ==
    IF data = Json_ThinkingEnd THEN <<TRUE, [type |-> "ThinkingEnd"]>> ELSE <<FALSE, NoEvent>>

\* The item the stream of HttpAgent::run yields for an item of the decoder:
\* <<whether it is Ok, the event, the error>>.
StreamItem(item) ==
    IF item.ok
    THEN LET ev == event_from_str(item.data)
         IN IF ev[1] THEN <<TRUE, ev[2], NoError>> ELSE <<FALSE, NoEvent, JsonError>>
    ELSE <<FALSE, NoEvent, AgentError(item.error, 0, "")>>

WireSegment == DataPrefix \o <<" ">> \o Json_ThinkingEnd

\* How a body on the wire ends: with nothing more, with the first bytes of a
\* segment, or with a complete segment that is not the text of an event.
WireTails ==
    {<<>>,
     SubSeq(WireSegment, 1, 12),
     Text_dataX \o Separator}

WireBodies ==
    {Terminated([i \in 1..n |-> WireSegment]) \o tail : n \in 0..MaxFrames, tail \in WireTails}

\* Before run_agent is called with one of the subscriber lists, the body
\* not yet sent.
WireStart(lists) ==
    /\ phase = "Idle"
    /\ params = [messages |-> <<>>, state |-> DefaultState]
    /\ subs \in lists
    /\ messages = <<>>
    /\ state = DefaultState
    /\ result = JsonNull
    /\ outcome = NoOutcome
    /\ nEvents = 0
    /\ last = NoStep
    /\ newMsgLog = <<>>
    /\ delivered = <<>>
    /\ other = NoRun
    /\ ErrIdle
    /\ sseWhole \in WireBodies
    /\ sseRest = sseWhole
    /\ sseBuffer = <<>>
    /\ sseOut = <<>>
    /\ sseDone = FALSE
    /\ sseLast = NoChunk

InitWire == WireStart({<<>>, <<QuietSubscriber>>})

\* Every item the decoder has emitted has been taken by the loop.
Drained == nEvents = Len(sseOut)

\* The loop polls the stream, and the next bytes of the body arrive: one
\* byte, eight bytes, or as many as a segment and its blank line have.
WireChunk(k) ==
    /\ phase = "Running"
    /\ Drained
    /\ k \in {1, 8, Len(WireSegment \o Separator)}
    /\ FeedChunk(k)

\* The loop polls the stream, and the body yields a transport error.
WireChunkError ==
    /\ phase = "Running"
    /\ Drained
    /\ ChunkError

\* The loop polls the stream, and the body has ended: all of it was sent, or
\* the host closed it early.
WireClosed ==
    /\ phase = "Running"
    /\ Drained
    /\ StreamClosed

\* The loop takes the next item, an event.
WireEvent ==
    /\ ~Drained
    /\ StreamItem(sseOut[nEvents + 1])[1]
    /\ OkItem(StreamItem(sseOut[nEvents + 1])[2])
    /\ UNCHANGED delivered

\* The loop takes the next item, an error.
WireError ==
    /\ ~Drained
    /\ ~StreamItem(sseOut[nEvents + 1])[1]
    /\ StreamError(StreamItem(sseOut[nEvents + 1])[3])

\* The end of the stream, were the loop to keep waiting for items.
WireEndKeepsWaiting ==
    /\ sseDone
    /\ Drained
    /\ UNCHANGED vars

\* The stream has ended and the loop is left.
WireEnd ==
    /\ sseDone
    /\ Drained
    /\ StreamEnd

NextWire ==
    \/ StartRun
    \/ \E k \in 1..Len(sseRest) : WireChunk(k)
    \/ WireChunkError
    \/ WireClosed
    \/ WireEvent
    \/ WireError
    \/ WireEnd

SpecWire == InitWire /\ [][NextWire]_vars

\* C39: when the byte stream ends while the decoder retains text, the
\* decoder emits nothing for it, neither a frame nor an error, and
\* run_agent, having handled the events of the complete segments, leaves
\* its loop as on any end of stream: it invokes on_run_finalized and
\* returns its result.
C39_UnterminatedTailDiscarded ==
    /\ [][(~sseDone /\ sseDone' /\ sseBuffer # <<>>) =>
             sseOut' \in {sseOut, Append(sseOut, SseErr("HttpTransport"))}]_vars
    /\ []((sseDone /\ sseBuffer # <<>> /\ phase = "Returned" /\ Drained
              /\ \A i \in 1..Len(sseOut) : StreamItem(sseOut[i])[1]) =>
             /\ last.step = "end"
             /\ outcome = Success(result, CollectNewMessages(messages, params.messages), state)
             /\ \A i \in SubIndices : Invoked("on_run_finalized", i))

\* C39 witness: the body ended after one event and the first bytes of a
\* second segment; the run handled the event and returned its result while
\* the decoder still held those bytes.
C39_Witness ==
    /\ sseDone
    /\ sseBuffer = SubSeq(WireSegment, 1, 12)
    /\ sseRest = <<>>
    /\ Len(sseOut) = 1
    /\ nEvents = 1
    /\ Len(subs) = 1
    /\ phase = "Returned"
    /\ last.step = "end"
    /\ outcome.kind = "ok"

(***************************************************************************)
(* Termination of run_agent.  The call is made; the body is finite, and    *)
(* the host ends it or the connection fails at some point; every hook      *)
(* returns, so that the loop takes an item that is ready and leaves when   *)
(* the stream has ended.                                                   *)
(***************************************************************************)
InitLive == WireStart({<<>>} \cup {<<s>> : s \in SubscriberChoices})

SpecLive ==
    /\ InitLive
    /\ [][NextWire]_vars
    /\ WF_vars(StartRun)
    /\ WF_vars(WireClosed \/ WireChunkError)
    /\ WF_vars(WireEvent)
    /\ WF_vars(WireError)
    /\ WF_vars(WireEnd)

\* C40: run_agent eventually returns, with a result or an error; it takes
\* no more items than the stream has yielded, each in its turn; and nothing
\* happens in the run, no hook invocation either, once it has returned.
C40_RunTerminates ==
    /\ <>(phase = "Returned" /\ outcome.kind \in {"ok", "err"})
    /\ [](nEvents <= Len(sseOut))
    /\ [][phase # "Returned" /\ nEvents' \in {nEvents, nEvents + 1}]_vars

\* C40 witness: a run with a subscriber returned after the two events of the
\* body and the end of the stream.
C40_Witness ==
    /\ phase = "Returned"
    /\ last.step = "end"
    /\ Len(subs) = 1
    /\ nEvents = 2
    /\ Len(sseOut) = 2
    /\ sseDone

====
